---------------------------- MODULE Spec2Model ----------------------------
(***************************************************************************)
(* Model of the metals-hedging platform (rackobiz/mas-hedging-functional). *)
(*                                                                         *)
(* Units.  Money and prices are integers counted in cents, quantities are  *)
(* integers counted in 1/QScale of a unit, a product quantity x price is   *)
(* counted in 1/QScale of a cent, percentages are counted in hundredths    *)
(* of a percent.  Number.prototype.toFixed(2) is the rounding of such a    *)
(* product to whole cents (half away from zero).                           *)
(***************************************************************************)
EXTENDS Integers, Sequences, FiniteSets, TLC

(***************************************************************************)
(* Numbers                                                                 *)
(***************************************************************************)

\* resolution of the REAL column quantity: quantities are multiples of 1/QScale
QScale == 10

Abs(x) == IF x < 0 THEN -x ELSE x

Sgn(x) == IF x < 0 THEN -1 ELSE IF x = 0 THEN 0 ELSE 1

\* n / d rounded to the nearest integer, a half rounded away from zero (d > 0)
RoundDiv(n, d) == Sgn(n) * ((2 * Abs(n) + d) \div (2 * d))

\* parseFloat(x.toFixed(2)) of an amount x given in 1/QScale of a cent: cents
toFixed2(x) == RoundDiv(x, QScale)

\* a JavaScript number that is the result of a division
Num(n) == [kind |-> "num", v |-> n]
NaN == [kind |-> "NaN", v |-> 0]
Infinity(s) == [kind |-> "Infinity", v |-> s]

\* parseFloat(((num / den) * 100).toFixed(2)), in hundredths of a percent;
\* the quotient is developed two decimal digits at a time (long division)
PercentOf(num, den) ==
    IF den = 0
    THEN IF num = 0 THEN NaN ELSE Infinity(Sgn(num))
    ELSE LET a == Abs(num)
             b == Abs(den)
             q0 == a \div b
             r0 == a % b
             q1 == (r0 * 100) \div b
             r1 == (r0 * 100) % b
             q2 == (r1 * 100) \div b
             r2 == (r1 * 100) % b
             up == IF 2 * r2 >= b THEN 1 ELSE 0
         IN Num(Sgn(num) * Sgn(den) * (q0 * 10000 + q1 * 100 + q2 + up))

(***************************************************************************)
(* P&L engine                                                              *)
(***************************************************************************)

\* the unrounded pnlAmount of calculatePnL, in 1/QScale of a cent
pnlAmount(position, currentPrice) ==
    LET entryValue == position.quantity * position.entryPrice
        currentValue == position.quantity * currentPrice
    IN IF position.type = "long"
       THEN currentValue - entryValue
       ELSE entryValue - currentValue

\* a plausible slip: the two directions exchanged
calculatePnL_swapped(position, currentPrice) ==
    LET amt == 0 - pnlAmount(position, currentPrice)
    IN [amount |-> toFixed2(amt),
        percentage |-> PercentOf(amt, position.quantity * position.entryPrice)]

\* a plausible slip: the percentage taken from the amount already rounded
calculatePnL_fromRounded(position, currentPrice) ==
    LET amt == pnlAmount(position, currentPrice)
    IN [amount |-> toFixed2(amt),
        percentage |-> PercentOf(toFixed2(amt) * QScale,
                                 position.quantity * position.entryPrice)]

\* Database.calculatePnL (legacy application)
calculatePnL(position, currentPrice) ==
    LET amt == pnlAmount(position, currentPrice)
    IN [amount |-> toFixed2(amt),
        percentage |-> PercentOf(amt, position.quantity * position.entryPrice)]

\* the enrichment of one row in GET /positions (hedging router)
enrichPosition(position) ==
    LET currentPrice == IF position.current_market_price # <<>>
                           /\ position.current_market_price[1] # 0
                        THEN position.current_market_price[1]
                        ELSE position.entry_price
        profitLoss == IF position.position_type = "long"
                      THEN (currentPrice - position.entry_price) * position.quantity
                      ELSE (position.entry_price - currentPrice) * position.quantity
        profitLossPercent == PercentOf(profitLoss,
                                       position.entry_price * position.quantity)
    IN [id |-> position.id,
        user_id |-> position.user_id,
        status |-> position.status,
        current_market_price |-> currentPrice,
        profit_loss |-> toFixed2(profitLoss),
        profit_loss_percent |-> profitLossPercent]


(***************************************************************************)
(* State                                                                   *)
(***************************************************************************)

VARIABLES
    hedging_positions,  \* table hedging_positions, a row's id is its index
    market_data,        \* table market_data (ticks), in insertion order
    audit_log,          \* table audit_log
    notifications,      \* table notifications
    now,                \* wall clock, milliseconds since the process started + CACHE_DURATION
    marketDataCache,    \* market.js: metal -> cached row
    lastCacheUpdate,    \* market.js: time of the last cache refresh
    req,                \* the requests in flight: slot -> handler position and locals
    res,                \* the response the last step sent, NoResponse if it sent none
    nreq,               \* number of requests received so far
    plWritten,          \* ids of the rows whose profit_loss an UPDATE has set
    closedOk,           \* ids for which POST /positions/:id/close has answered 200
    positions,          \* legacy application (server.js): table positions
    legacy_res,         \* legacy application: the last response
    pnl_in,             \* P&L engine alone: the position and price given
    pnl_out,            \* P&L engine alone: the result returned
    lastHit,            \* the last cache hit of GET /market/data: its time and the data served
    tick_in,            \* tick generator alone: the current row and the two draws
    tick_out,           \* tick generator alone: the tick generated
    risk_in,            \* risk metrics alone: the active positions read
    risk_out,           \* risk metrics alone: the metrics returned
    trading_alerts,     \* table trading_alerts, a row's id is its index
    stat_in,            \* win rates alone: the rows read
    stat_out,           \* win rates alone: the win rates returned
    err_in,             \* error reporting alone: the error raised and where
    err_out             \* error reporting alone: the response sent

vars == <<hedging_positions, market_data, audit_log, notifications, now,
          marketDataCache, lastCacheUpdate, req, res, nreq, plWritten, closedOk,
          positions, legacy_res, pnl_in, pnl_out, lastHit,
          tick_in, tick_out, risk_in, risk_out,
          trading_alerts, stat_in, stat_out, err_in, err_out>>

routerVars == <<hedging_positions, market_data, audit_log, notifications, now,
                marketDataCache, lastCacheUpdate, req, res, nreq, plWritten, closedOk,
                lastHit>>

legacyVars == <<positions, legacy_res>>

pnlVars == <<pnl_in, pnl_out>>

tickVars == <<tick_in, tick_out>>

riskVars == <<risk_in, risk_out>>

statVars == <<stat_in, stat_out>>

errVars == <<err_in, err_out>>

(***************************************************************************)
(* Bounds of the model                                                     *)
(***************************************************************************)

MaxInFlight == 2        \* requests being served at the same time
MaxRequests == 3        \* requests received in one run
MaxPositions == 2       \* rows of hedging_positions
MaxCeilRequests == 7    \* requests received in one run of SpecCeiling
MaxCeilPositions == 6   \* rows of hedging_positions in SpecCeiling
MaxLegacyPositions == 2 \* rows of the legacy table positions

Slots == 1..MaxInFlight

Users == {"A", "B"}

\* SQL NULL, JavaScript undefined: the empty sequence; a value v is <<v>>
Null == <<>>

Max(S) == CHOOSE x \in S : \A y \in S : y <= x

(***************************************************************************)
(* Program constants                                                       *)
(***************************************************************************)

CACHE_DURATION == 30000

Hour == 3600000

limits == [basic |-> 5, pro |-> 25, enterprise |-> 1000]

\* users.subscription_plan: the column's default, no request of the model changes it
subscription_plan == [u \in Users |-> "basic"]

\* seedInitialData: the seeded ticks, prices in cents
initialMarketData ==
    << [metal |-> "copper", price |-> 874250],
       [metal |-> "aluminum", price |-> 245075],
       [metal |-> "zinc", price |-> 312025],
       [metal |-> "nickel", price |-> 2187500],
       [metal |-> "lead", price |-> 218530],
       [metal |-> "tin", price |-> 2465000] >>

\* the metals whose ticks the model follows (the other seeded metals behave alike)
SeededMetals == {"lead"}

\* the instants the clock visits: the start and one hour later
Instants == {CACHE_DURATION, CACHE_DURATION + Hour}

(***************************************************************************)
(* Queries                                                                 *)
(***************************************************************************)

\* the metals that have a tick in market_data
StoredMetals == {market_data[i].metal_type : i \in DOMAIN market_data}

\* the ticks of a metal; ticks stored in the same second are read in rowid order
TicksOf(metal) == {i \in DOMAIN market_data : market_data[i].metal_type = metal}

\* SELECT price FROM market_data WHERE metal_type = ? ORDER BY timestamp DESC LIMIT 1
latestPrice(metal) ==
    IF TicksOf(metal) = {} THEN Null
    ELSE <<market_data[Max(TicksOf(metal))].price>>

\* the ticks inside the freshness window: timestamp > datetime('now', '-1 hour')
FreshTicksOf(metal) == {i \in TicksOf(metal) : market_data[i].timestamp > now - Hour}

\* a plausible slip: the last-known price, whatever its age
freshPrice_lastKnown(metal) == latestPrice(metal)

\* FIRST_VALUE(price) OVER (PARTITION BY metal_type ORDER BY timestamp DESC) of the window
freshPrice(metal) ==
    IF FreshTicksOf(metal) = {} THEN Null
    ELSE <<market_data[Max(FreshTicksOf(metal))].price>>

\* SELECT COUNT(*) FROM hedging_positions WHERE user_id = ? AND status = "active"
positionCount(userId) ==
    Cardinality({i \in DOMAIN hedging_positions :
                    /\ hedging_positions[i].user_id = userId
                    /\ hedging_positions[i].status = "active"})

\* the entry price lies more than 10% away from the market price
outsideBand(entryPrice, price) == Abs(entryPrice - price) * 10 > price

\* final P&L of a close at the given price, in 1/QScale of a cent
finalPnL(position, price) ==
    IF position.position_type = "long"
    THEN (price - position.entry_price) * position.quantity
    ELSE (position.entry_price - price) * position.quantity

(***************************************************************************)
(* Requests                                                                *)
(***************************************************************************)

Idle == [pc |-> "idle"]

\* a response: status code, error label, the position id named, the payload
Done(kind, user, id, status, error, out) ==
    [pc |-> "done", kind |-> kind, user |-> user, id |-> id,
     status |-> status, error |-> error, out |-> out]

NoResponse == Done("none", "", 0, 0, "", Null)

Free(r) == req[r].pc = "idle"

\* a request arrives and is served in the first free slot
Arrive(r) ==
    /\ Free(r)
    /\ \A q \in Slots : q < r => ~Free(q)
    /\ nreq' = nreq + 1

\* the handler in slot r moves on to next, or answers with it
Step(r, next) ==
    IF next.pc = "done"
    THEN req' = [req EXCEPT ![r] = Idle] /\ res' = next
    ELSE req' = [req EXCEPT ![r] = next] /\ res' = NoResponse

\* creations past their validation and not yet inserted
PendingCreates ==
    Cardinality({r \in Slots : req[r].pc \in {"count", "market", "insert"}})

(***************************************************************************)
(* POST /positions                                                         *)
(***************************************************************************)

\* lines 577-592: the synchronous validation; "" stands for a missing field
validate(body) ==
    IF \/ body.metalType = "" \/ body.positionType = ""
       \/ body.quantity = 0 \/ body.entryPrice = 0
       \/ body.contractDate = 0 \/ body.expiryDate = 0
    THEN "required"
    ELSE IF body.positionType \notin {"long", "short"} THEN "type"
    ELSE IF body.quantity <= 0 \/ body.entryPrice <= 0 THEN "positive"
    ELSE IF body.expiryDate < body.contractDate THEN "expiry"
    ELSE "ok"

\* the request arrives and is validated
PostPositions(r, userId, body) ==
    /\ Arrive(r)
    /\ Step(r,
                 IF validate(body) # "ok"
                 THEN Done("create", userId, 0, 400, validate(body), Null)
                 ELSE [pc |-> "count", kind |-> "create", user |-> userId,
                       body |-> body, marketData |-> Null, id |-> 0])
    /\ UNCHANGED <<legacyVars, pnlVars, tickVars, riskVars, statVars, errVars, trading_alerts, lastHit>>
    /\ UNCHANGED <<hedging_positions, market_data, audit_log, notifications, now,
                   marketDataCache, lastCacheUpdate, plWritten, closedOk>>

\* lines 604: the subscription ceiling is reached
limitReached(userId) ==
    positionCount(userId) >= limits[subscription_plan[userId]]

\* lines 594-608: the plan and the count of active positions are read
PostPositionsCount(r) ==
    /\ req[r].pc = "count"
    /\ Step(r,
                 IF limitReached(req[r].user)
                 THEN Done("create", req[r].user, 0, 403, "limit", Null)
                 ELSE [req[r] EXCEPT !.pc = "market"])
    /\ UNCHANGED <<legacyVars, pnlVars, tickVars, riskVars, statVars, errVars, trading_alerts, lastHit>>
    /\ UNCHANGED <<hedging_positions, market_data, audit_log, notifications, now,
                   marketDataCache, lastCacheUpdate, nreq, plWritten, closedOk>>

\* a plausible slip: the band check compares with 20%
bandRejects_wide(marketData, entryPrice) ==
    marketData # Null /\ Abs(entryPrice - marketData[1]) * 5 > marketData[1]

\* line 618: the band check on the price read
bandRejects(marketData, entryPrice) ==
    marketData # Null /\ outsideBand(entryPrice, marketData[1])

\* lines 610-622: the latest tick of the metal is read, the band is checked
PostPositionsMarket(r) ==
    /\ req[r].pc = "market"
    /\ LET marketData == latestPrice(req[r].body.metalType)
       IN Step(r,
                    IF bandRejects(marketData, req[r].body.entryPrice)
                    THEN Done("create", req[r].user, 0, 400, "band", marketData)
                    ELSE [req[r] EXCEPT !.pc = "insert", !.marketData = marketData])
    /\ UNCHANGED <<legacyVars, pnlVars, tickVars, riskVars, statVars, errVars, trading_alerts, lastHit>>
    /\ UNCHANGED <<hedging_positions, market_data, audit_log, notifications, now,
                   marketDataCache, lastCacheUpdate, nreq, plWritten, closedOk>>

\* lines 657-660: a statement of the handler fails (the store is unavailable),
\* the statement writes nothing, the catch block answers 500
PostPositionsFail(r) ==
    /\ req[r].pc \in {"count", "market", "insert", "audit", "notify"}
    /\ req[r].kind = "create"
    /\ Step(r, Done("create", req[r].user, req[r].id, 500,
                    "Failed to create hedging position", Null))
    /\ UNCHANGED <<legacyVars, pnlVars, tickVars, riskVars, statVars, errVars, trading_alerts, lastHit>>
    /\ UNCHANGED <<hedging_positions, market_data, audit_log, notifications, now,
                   marketDataCache, lastCacheUpdate, nreq, plWritten, closedOk>>

\* the row INSERT INTO hedging_positions stores, with the columns' defaults
newPosition(id, userId, body) ==
    [id |-> id, user_id |-> userId, metal_type |-> body.metalType,
     position_type |-> body.positionType, quantity |-> body.quantity,
     entry_price |-> body.entryPrice, current_price |-> Null,
     target_price |-> body.targetPrice, stop_loss |-> body.stopLoss,
     status |-> "active", contract_date |-> body.contractDate,
     expiry_date |-> body.expiryDate, profit_loss |-> 0]

\* lines 624-633: the row is inserted
PostPositionsInsert(r) ==
    /\ req[r].pc = "insert"
    /\ LET id == Len(hedging_positions) + 1
       IN /\ hedging_positions' =
                Append(hedging_positions, newPosition(id, req[r].user, req[r].body))
          /\ Step(r, [req[r] EXCEPT !.pc = "audit", !.id = id])
    /\ UNCHANGED <<legacyVars, pnlVars, tickVars, riskVars, statVars, errVars, trading_alerts, lastHit>>
    /\ UNCHANGED <<market_data, audit_log, notifications, now,
                   marketDataCache, lastCacheUpdate, nreq, plWritten, closedOk>>

\* lines 635-639: the audit row is written
PostPositionsAudit(r) ==
    /\ req[r].pc = "audit"
    /\ audit_log' = Append(audit_log, [user_id |-> req[r].user,
                                       action |-> "POSITION_CREATED", id |-> req[r].id])
    /\ Step(r, [req[r] EXCEPT !.pc = "notify"])
    /\ UNCHANGED <<legacyVars, pnlVars, tickVars, riskVars, statVars, errVars, trading_alerts, lastHit>>
    /\ UNCHANGED <<hedging_positions, market_data, notifications, now,
                   marketDataCache, lastCacheUpdate, nreq, plWritten, closedOk>>

\* lines 641-655: the notification is written, then 201
PostPositionsNotify(r) ==
    /\ req[r].pc = "notify"
    /\ notifications' = Append(notifications, [user_id |-> req[r].user,
                                               title |-> "New Position Created"])
    /\ Step(r,
                 Done("create", req[r].user, req[r].id, 201, "", req[r].marketData))
    /\ UNCHANGED <<legacyVars, pnlVars, tickVars, riskVars, statVars, errVars, trading_alerts, lastHit>>
    /\ UNCHANGED <<hedging_positions, market_data, audit_log, now,
                   marketDataCache, lastCacheUpdate, nreq, plWritten, closedOk>>

(***************************************************************************)
(* PUT /positions/:id                                                      *)
(***************************************************************************)

\* SELECT * FROM hedging_positions WHERE id = ? AND user_id = ?
findOwn(id, userId) ==
    IF id \in DOMAIN hedging_positions /\ hedging_positions[id].user_id = userId
    THEN <<hedging_positions[id]>>
    ELSE Null

\* lines 687-700, 724: the body names a field the handler updates
hasUpdateFields(body) ==
    \/ body.targetPrice # Null
    \/ body.stopLoss # Null
    \/ body.status \in {"active", "closed"}

\* lines 664-700, 724-726: the row is read; status "" stands for a missing field
PutPosition(r, userId, id, body) ==
    /\ Arrive(r)
    /\ LET position == findOwn(id, userId)
       IN Step(r,
                    IF position = Null
                    THEN Done("put", userId, id, 404, "notfound", Null)
                    ELSE IF position[1].status = "closed"
                    THEN Done("put", userId, id, 400, "closed", Null)
                    ELSE IF body.status = "closed"
                    THEN [pc |-> "pmarket", kind |-> "put", user |-> userId, id |-> id,
                          body |-> body, position |-> position[1], finalPnL |-> Null]
                    ELSE IF ~hasUpdateFields(body)
                    THEN Done("put", userId, id, 400, "nofields", Null)
                    ELSE [pc |-> "pupdate", kind |-> "put", user |-> userId, id |-> id,
                          body |-> body, position |-> position[1], finalPnL |-> Null])
    /\ UNCHANGED <<legacyVars, pnlVars, tickVars, riskVars, statVars, errVars, trading_alerts, lastHit>>
    /\ UNCHANGED <<hedging_positions, market_data, audit_log, notifications, now,
                   marketDataCache, lastCacheUpdate, plWritten, closedOk>>

\* lines 701-721: closing, the latest tick is read and the final P&L computed
PutPositionMarket(r) ==
    /\ req[r].pc = "pmarket"
    /\ LET currentPrice == latestPrice(req[r].position.metal_type)
       IN Step(r,
                    [req[r] EXCEPT
                       !.pc = "pupdate",
                       !.finalPnL = IF currentPrice = Null THEN Null
                                    ELSE <<toFixed2(finalPnL(req[r].position,
                                                             currentPrice[1]))>>])
    /\ UNCHANGED <<legacyVars, pnlVars, tickVars, riskVars, statVars, errVars, trading_alerts, lastHit>>
    /\ UNCHANGED <<hedging_positions, market_data, audit_log, notifications, now,
                   marketDataCache, lastCacheUpdate, nreq, plWritten, closedOk>>

\* a plausible slip: any status of the body is written
putRow_anyStatus(row, body, pnl) ==
    [row EXCEPT
       !.target_price = IF body.targetPrice # Null THEN body.targetPrice ELSE @,
       !.stop_loss = IF body.stopLoss # Null THEN body.stopLoss ELSE @,
       !.status = IF body.status # "" THEN body.status ELSE @,
       !.profit_loss = IF pnl # Null THEN pnl[1] ELSE @]

\* lines 731-735: the row as UPDATE ... SET <updateFields> leaves it
putRow(row, body, pnl) ==
    [row EXCEPT
       !.target_price = IF body.targetPrice # Null THEN body.targetPrice ELSE @,
       !.stop_loss = IF body.stopLoss # Null THEN body.stopLoss ELSE @,
       !.status = IF body.status \in {"active", "closed"} THEN body.status ELSE @,
       !.profit_loss = IF pnl # Null THEN pnl[1] ELSE @]

\* lines 728-735: UPDATE hedging_positions ... WHERE id = ? AND user_id = ?
PutPositionUpdate(r) ==
    /\ req[r].pc = "pupdate"
    /\ hedging_positions' =
          [i \in DOMAIN hedging_positions |->
              IF i = req[r].id /\ hedging_positions[i].user_id = req[r].user
              THEN putRow(hedging_positions[i], req[r].body, req[r].finalPnL)
              ELSE hedging_positions[i]]
    /\ plWritten' = IF req[r].finalPnL # Null THEN plWritten \cup {req[r].id}
                    ELSE plWritten
    /\ Step(r, [req[r] EXCEPT !.pc = "paudit"])
    /\ UNCHANGED <<legacyVars, pnlVars, tickVars, riskVars, statVars, errVars, trading_alerts, lastHit>>
    /\ UNCHANGED <<market_data, audit_log, notifications, now,
                   marketDataCache, lastCacheUpdate, nreq, closedOk>>

\* lines 737-743: the audit row is written, then 200
PutPositionAudit(r) ==
    /\ req[r].pc = "paudit"
    /\ audit_log' = Append(audit_log, [user_id |-> req[r].user,
                                       action |-> "POSITION_UPDATED", id |-> req[r].id])
    /\ Step(r, Done("put", req[r].user, req[r].id, 200, "", Null))
    /\ UNCHANGED <<legacyVars, pnlVars, tickVars, riskVars, statVars, errVars, trading_alerts, lastHit>>
    /\ UNCHANGED <<hedging_positions, market_data, notifications, now,
                   marketDataCache, lastCacheUpdate, nreq, plWritten, closedOk>>

(***************************************************************************)
(* POST /positions/:id/close                                               *)
(***************************************************************************)

\* a plausible slip: the owner is not part of the WHERE clause
findActiveOwn_anyUser(id, userId) ==
    IF /\ id \in DOMAIN hedging_positions
       /\ hedging_positions[id].status = "active"
    THEN <<hedging_positions[id]>>
    ELSE Null

\* SELECT * FROM hedging_positions WHERE id = ? AND user_id = ? AND status = 'active'
findActiveOwn(id, userId) ==
    IF /\ id \in DOMAIN hedging_positions
       /\ hedging_positions[id].user_id = userId
       /\ hedging_positions[id].status = "active"
    THEN <<hedging_positions[id]>>
    ELSE Null

\* lines 752-769: the active row is read; closePrice 0 stands for a missing field
ClosePosition(r, userId, id, closePrice) ==
    /\ Arrive(r)
    /\ LET position == findActiveOwn(id, userId)
       IN Step(r,
                    IF position = Null
                    THEN Done("close", userId, id, 404, "notfound", Null)
                    ELSE [pc |-> IF closePrice # 0 THEN "cupdate" ELSE "cmarket",
                          kind |-> "close", user |-> userId, id |-> id,
                          position |-> position[1], finalClosePrice |-> closePrice])
    /\ UNCHANGED <<legacyVars, pnlVars, tickVars, riskVars, statVars, errVars, trading_alerts, lastHit>>
    /\ UNCHANGED <<hedging_positions, market_data, audit_log, notifications, now,
                   marketDataCache, lastCacheUpdate, plWritten, closedOk>>

\* lines 769-777: no close price given, the latest tick is read
ClosePositionMarket(r) ==
    /\ req[r].pc = "cmarket"
    /\ LET marketData == latestPrice(req[r].position.metal_type)
       IN Step(r,
                    [req[r] EXCEPT
                       !.pc = "cupdate",
                       !.finalClosePrice = IF marketData # Null THEN marketData[1]
                                           ELSE req[r].position.entry_price])
    /\ UNCHANGED <<legacyVars, pnlVars, tickVars, riskVars, statVars, errVars, trading_alerts, lastHit>>
    /\ UNCHANGED <<hedging_positions, market_data, audit_log, notifications, now,
                   marketDataCache, lastCacheUpdate, nreq, plWritten, closedOk>>

\* lines 779-791: UPDATE ... SET status = 'closed', profit_loss, current_price WHERE id = ?
ClosePositionUpdate(r) ==
    /\ req[r].pc = "cupdate"
    /\ hedging_positions' =
          [i \in DOMAIN hedging_positions |->
              IF i = req[r].id
              THEN [hedging_positions[i] EXCEPT
                      !.status = "closed",
                      !.profit_loss = toFixed2(finalPnL(req[r].position,
                                                        req[r].finalClosePrice)),
                      !.current_price = <<req[r].finalClosePrice>>]
              ELSE hedging_positions[i]]
    /\ plWritten' = plWritten \cup {req[r].id}
    /\ Step(r, [req[r] EXCEPT !.pc = "caudit"])
    /\ UNCHANGED <<legacyVars, pnlVars, tickVars, riskVars, statVars, errVars, trading_alerts, lastHit>>
    /\ UNCHANGED <<market_data, audit_log, notifications, now,
                   marketDataCache, lastCacheUpdate, nreq, closedOk>>

\* lines 793-797: the audit row is written
ClosePositionAudit(r) ==
    /\ req[r].pc = "caudit"
    /\ audit_log' = Append(audit_log, [user_id |-> req[r].user,
                                       action |-> "POSITION_CLOSED", id |-> req[r].id])
    /\ Step(r, [req[r] EXCEPT !.pc = "cnotify"])
    /\ UNCHANGED <<legacyVars, pnlVars, tickVars, riskVars, statVars, errVars, trading_alerts, lastHit>>
    /\ UNCHANGED <<hedging_positions, market_data, notifications, now,
                   marketDataCache, lastCacheUpdate, nreq, plWritten, closedOk>>

\* lines 799-815: the notification is written, then 200
ClosePositionNotify(r) ==
    /\ req[r].pc = "cnotify"
    /\ notifications' = Append(notifications, [user_id |-> req[r].user,
                                               title |-> "Position Closed"])
    /\ closedOk' = closedOk \cup {req[r].id}
    /\ Step(r,
                 Done("close", req[r].user, req[r].id, 200, "",
                      [finalPnL |-> toFixed2(finalPnL(req[r].position,
                                                      req[r].finalClosePrice)),
                       closePrice |-> req[r].finalClosePrice]))
    /\ UNCHANGED <<legacyVars, pnlVars, tickVars, riskVars, statVars, errVars, trading_alerts, lastHit>>
    /\ UNCHANGED <<hedging_positions, market_data, audit_log, now,
                   marketDataCache, lastCacheUpdate, nreq, plWritten>>

(***************************************************************************)
(* GET /positions                                                          *)
(***************************************************************************)

Reverse(s) == [i \in 1..Len(s) |-> s[Len(s) + 1 - i]]

\* lines 492-518: the caller's rows, newest first, joined with the fresh price
listQuery(userId) ==
    LET Own(row) == row.user_id = userId
        rows == SelectSeq(Reverse(hedging_positions), Own)
    IN [i \in DOMAIN rows |->
          [id |-> rows[i].id, user_id |-> rows[i].user_id, status |-> rows[i].status,
           position_type |-> rows[i].position_type, quantity |-> rows[i].quantity,
           entry_price |-> rows[i].entry_price,
           current_market_price |-> freshPrice(rows[i].metal_type)]]

RECURSIVE SumPnL(_)
SumPnL(rows) ==
    IF rows = <<>> THEN 0 ELSE rows[1].profit_loss + SumPnL(Tail(rows))

\* lines 487-554: the whole handler (query parameters at their defaults)
GetPositions(r, userId) ==
    /\ Arrive(r)
    /\ LET rows == listQuery(userId)
           enrichedPositions == [i \in DOMAIN rows |-> enrichPosition(rows[i])]
           Active(p) == p.status = "active"
       IN Step(r,
                    Done("list", userId, 0, 200, "",
                         [positions |-> enrichedPositions,
                          totalPositions |-> Len(enrichedPositions),
                          activePositions |-> Len(SelectSeq(enrichedPositions, Active)),
                          totalPnL |-> SumPnL(enrichedPositions)]))
    /\ UNCHANGED <<legacyVars, pnlVars, tickVars, riskVars, statVars, errVars, trading_alerts, lastHit>>
    /\ UNCHANGED <<hedging_positions, market_data, audit_log, notifications, now,
                   marketDataCache, lastCacheUpdate, plWritten, closedOk>>

(***************************************************************************)
(* Dashboard: GET /risk-metrics, GET /overview                             *)
(***************************************************************************)

\* part_002 lines 21-31, 197-207: the caller's active rows joined with the fresh price
activeQuery(userId) ==
    LET Own(row) == row.user_id = userId /\ row.status = "active"
        rows == SelectSeq(hedging_positions, Own)
    IN [i \in DOMAIN rows |->
          [id |-> rows[i].id, metal_type |-> rows[i].metal_type,
           position_type |-> rows[i].position_type, quantity |-> rows[i].quantity,
           entry_price |-> rows[i].entry_price, stop_loss |-> rows[i].stop_loss,
           current_market_price |-> freshPrice(rows[i].metal_type)]]

\* lines 35-42, 216-227: position.current_market_price || position.entry_price,
\* then the unrealized P&L of the row, in 1/QScale of a cent
unrealizedPnL(position) ==
    LET currentPrice == IF position.current_market_price # <<>>
                           /\ position.current_market_price[1] # 0
                        THEN position.current_market_price[1]
                        ELSE position.entry_price
    IN IF position.position_type = "long"
       THEN (currentPrice - position.entry_price) * position.quantity
       ELSE (position.entry_price - currentPrice) * position.quantity

RECURSIVE SumSeq(_)
SumSeq(xs) == IF xs = <<>> THEN 0 ELSE xs[1] + SumSeq(Tail(xs))

\* lines 33-45, 211-228: totalUnrealizedPnL, not rounded
totalUnrealizedPnL(activePositions) ==
    SumSeq([i \in DOMAIN activePositions |-> unrealizedPnL(activePositions[i])])

\* a plausible slip: the level is high from 50 on
riskLevel_from50(maxMetalExposure, totalExposure) ==
    IF totalExposure > 0 /\ 2 * maxMetalExposure >= totalExposure THEN "high"
    ELSE IF totalExposure > 0 /\ 10 * maxMetalExposure > 3 * totalExposure THEN "medium"
    ELSE "low"

\* a plausible slip: the level is medium from 40 on
riskLevel_medium40(maxMetalExposure, totalExposure) ==
    IF totalExposure > 0 /\ 2 * maxMetalExposure > totalExposure THEN "high"
    ELSE IF totalExposure > 0 /\ 10 * maxMetalExposure > 4 * totalExposure THEN "medium"
    ELSE "low"

\* lines 242, 299: concentrationRisk > 50 ? 'high' : concentrationRisk > 30 ? 'medium'
\* : 'low', on the concentrationRisk of line 242 (not rounded)
riskLevel(maxMetalExposure, totalExposure) ==
    IF totalExposure > 0 /\ 2 * maxMetalExposure > totalExposure THEN "high"
    ELSE IF totalExposure > 0 /\ 10 * maxMetalExposure > 3 * totalExposure THEN "medium"
    ELSE "low"

\* a plausible slip: the concentration is the share of the smallest metal
concentrationRisk_min(metalExposure, totalExposure) ==
    IF totalExposure > 0
    THEN PercentOf(0 - Max({0 - metalExposure[m] : m \in DOMAIN metalExposure}),
                   totalExposure)
    ELSE Num(0)

\* lines 241-242, 284: parseFloat(concentrationRisk.toFixed(2)), in hundredths of a percent
concentrationRisk(metalExposure, totalExposure) ==
    IF totalExposure > 0
    THEN PercentOf(Max({metalExposure[m] : m \in DOMAIN metalExposure} \cup {0}),
                   totalExposure)
    ELSE Num(0)

\* a plausible slip: every position counted on both sides
positionTypeExposure_both(activePositions, type) ==
    SumSeq([i \in DOMAIN activePositions |->
              activePositions[i].quantity * activePositions[i].entry_price])

\* lines 213, 237: positionTypeExposure[position.position_type] += positionValue
positionTypeExposure(activePositions, type) ==
    SumSeq([i \in DOMAIN activePositions |->
              IF activePositions[i].position_type = type
              THEN activePositions[i].quantity * activePositions[i].entry_price
              ELSE 0])

\* lines 244-253: the positions whose stop loss is reached; a position without
\* a stop loss (NULL or 0) or without a fresh price (NULL or 0) is not counted
positionsAtRisk(activePositions) ==
    Cardinality({i \in DOMAIN activePositions :
       LET position == activePositions[i]
       IN /\ position.stop_loss # <<>> /\ position.stop_loss[1] # 0
          /\ position.current_market_price # <<>>
          /\ position.current_market_price[1] # 0
          /\ IF position.position_type = "long"
             THEN position.current_market_price[1] <= position.stop_loss[1]
             ELSE position.current_market_price[1] >= position.stop_loss[1]})

\* lines 209-300: the metrics of the response (exposures in 1/QScale of a cent
\* before rounding, amounts of the response in cents)
riskMetrics(activePositions) ==
    LET positionValue(i) == activePositions[i].quantity * activePositions[i].entry_price
        totalExposure == SumSeq([i \in DOMAIN activePositions |-> positionValue(i)])
        metals == {activePositions[i].metal_type : i \in DOMAIN activePositions}
        metalExposure ==
           [m \in metals |->
              SumSeq([i \in DOMAIN activePositions |->
                        IF activePositions[i].metal_type = m
                        THEN positionValue(i) ELSE 0])]
        maxMetalExposure == Max({metalExposure[m] : m \in metals} \cup {0})
    IN [totalExposure |-> toFixed2(totalExposure),
        totalUnrealizedPnL |-> toFixed2(totalUnrealizedPnL(activePositions)),
        concentrationRisk |-> concentrationRisk(metalExposure, totalExposure),
        positionsAtRisk |-> positionsAtRisk(activePositions),
        metalExposure |-> [m \in metals |-> toFixed2(metalExposure[m])],
        positionTypeBalance |->
           [long |-> toFixed2(positionTypeExposure(activePositions, "long")),
            short |-> toFixed2(positionTypeExposure(activePositions, "short"))],
        riskLevel |-> riskLevel(maxMetalExposure, totalExposure)]

\* lines 192-256: the request arrives, the active positions are read, the metrics computed
RiskMetrics(r, userId) ==
    /\ Arrive(r)
    /\ Step(r, [pc |-> "rvolatility", kind |-> "risk", user |-> userId,
                metrics |-> riskMetrics(activeQuery(userId))])
    /\ UNCHANGED <<legacyVars, pnlVars, tickVars, riskVars, statVars, errVars, trading_alerts, lastHit>>
    /\ UNCHANGED <<hedging_positions, market_data, audit_log, notifications, now,
                   marketDataCache, lastCacheUpdate, plWritten, closedOk>>

\* lines 258-300: the volatility of the metals is read (the portfolio beta is
\* left out of the response of the model), then 200
RiskMetricsVolatility(r) ==
    /\ req[r].pc = "rvolatility"
    /\ Step(r, Done("risk", req[r].user, 0, 200, "", req[r].metrics))
    /\ UNCHANGED <<legacyVars, pnlVars, tickVars, riskVars, statVars, errVars, trading_alerts, lastHit>>
    /\ UNCHANGED <<hedging_positions, market_data, audit_log, notifications, now,
                   marketDataCache, lastCacheUpdate, nreq, plWritten, closedOk>>

\* a plausible slip: a trade that broke even counts as won
winningTrades_notLost(rows) ==
    Cardinality({i \in DOMAIN rows : rows[i].status = "closed" /\ rows[i].profit_loss >= 0})

\* lines 52, 870: SUM(CASE WHEN [status = 'closed' AND] profit_loss > 0 THEN 1 ELSE 0 END)
winningTrades(rows) ==
    Cardinality({i \in DOMAIN rows : rows[i].status = "closed" /\ rows[i].profit_loss > 0})

\* lines 51, 868: the number of closed rows
closedTrades(rows) == Cardinality({i \in DOMAIN rows : rows[i].status = "closed"})

\* lines 87-89, 877-879: parseFloat((winning / closed * 100).toFixed(2)), else 0,
\* in hundredths of a percent
winRate(winning_trades, closed_trades) ==
    IF closed_trades > 0 THEN PercentOf(winning_trades, closed_trades) ELSE Num(0)

\* lines 847-880: the win rate of /analytics, over the rows created inside the
\* period (created_at > datetime('now', '-N days')); ages and periods in days
analyticsWinRate(rows, period) ==
    LET InPeriod(row) == row.age < period
        inPeriod == SelectSeq(rows, InPeriod)
    IN winRate(winningTrades(inPeriod), closedTrades(inPeriod))

\* database.js line 136: the rows with pnl > 0 over all the rows, toFixed(1)
\* (a string in the response, here its value in hundredths of a percent)
legacyWinRate(rows) ==
    IF Len(rows) > 0
    THEN Num(10 * RoundDiv(1000 * Cardinality({i \in DOMAIN rows : rows[i].pnl > 0}),
                           Len(rows)))
    ELSE Num(0)

\* the number of the user's rows with the status
countStatus(userId, status) ==
    Cardinality({i \in DOMAIN hedging_positions :
                    /\ hedging_positions[i].user_id = userId
                    /\ hedging_positions[i].status = status})

\* lines 6-18: the request arrives, the counts of the user's positions are read
Overview(r, userId) ==
    /\ Arrive(r)
    /\ Step(r, [pc |-> "oactive", kind |-> "overview", user |-> userId,
                totalPositions |-> countStatus(userId, "active")
                                   + countStatus(userId, "closed"),
                activePositions |-> countStatus(userId, "active"),
                closedPositions |-> countStatus(userId, "closed"),
                totalUnrealizedPnL |-> 0, totalRealizedPnL |-> 0,
                winRate |-> Num(0)])
    /\ UNCHANGED <<legacyVars, pnlVars, tickVars, riskVars, statVars, errVars, trading_alerts, lastHit>>
    /\ UNCHANGED <<hedging_positions, market_data, audit_log, notifications, now,
                   marketDataCache, lastCacheUpdate, plWritten, closedOk>>

\* lines 20-45: the active positions are read, their unrealized P&L summed
OverviewActivePnL(r) ==
    /\ req[r].pc = "oactive"
    /\ Step(r, [req[r] EXCEPT
                  !.pc = "orealized",
                  !.totalUnrealizedPnL = totalUnrealizedPnL(activeQuery(req[r].user))])
    /\ UNCHANGED <<legacyVars, pnlVars, tickVars, riskVars, statVars, errVars, trading_alerts, lastHit>>
    /\ UNCHANGED <<hedging_positions, market_data, audit_log, notifications, now,
                   marketDataCache, lastCacheUpdate, nreq, plWritten, closedOk>>

\* lines 47-55: COALESCE(SUM(profit_loss), 0) of the closed positions, in cents
realizedPnL(userId) ==
    SumSeq([i \in DOMAIN hedging_positions |->
              IF /\ hedging_positions[i].user_id = userId
                 /\ hedging_positions[i].status = "closed"
              THEN hedging_positions[i].profit_loss ELSE 0])

\* lines 47-55: the realized P&L of the closed positions is read
OverviewRealized(r) ==
    /\ req[r].pc = "orealized"
    /\ LET Own(row) == row.user_id = req[r].user
           rows == SelectSeq(hedging_positions, Own)
       IN Step(r, [req[r] EXCEPT
                     !.pc = "ofinish",
                     !.totalRealizedPnL = realizedPnL(req[r].user),
                     !.winRate = winRate(winningTrades(rows), closedTrades(rows))])
    /\ UNCHANGED <<legacyVars, pnlVars, tickVars, riskVars, statVars, errVars, trading_alerts, lastHit>>
    /\ UNCHANGED <<hedging_positions, market_data, audit_log, notifications, now,
                   marketDataCache, lastCacheUpdate, nreq, plWritten, closedOk>>

\* lines 57-109: the recent activity, the distribution and the notifications are
\* read (left out of the response of the model), then 200
OverviewFinish(r) ==
    /\ req[r].pc = "ofinish"
    /\ Step(r, Done("overview", req[r].user, 0, 200, "",
                    [totalPositions |-> req[r].totalPositions,
                     activePositions |-> req[r].activePositions,
                     closedPositions |-> req[r].closedPositions,
                     totalUnrealizedPnL |-> toFixed2(req[r].totalUnrealizedPnL),
                     totalRealizedPnL |-> req[r].totalRealizedPnL,
                     winRate |-> req[r].winRate]))
    /\ UNCHANGED <<legacyVars, pnlVars, tickVars, riskVars, statVars, errVars, trading_alerts, lastHit>>
    /\ UNCHANGED <<hedging_positions, market_data, audit_log, notifications, now,
                   marketDataCache, lastCacheUpdate, nreq, plWritten, closedOk>>

(***************************************************************************)
(* Trading alerts: POST and PUT /users/alerts, GET /dashboard/alerts       *)
(***************************************************************************)

\* users.js lines 177-204: POST /alerts, the alert is validated and inserted
CreateAlert(r, userId, body) ==
    /\ Arrive(r)
    /\ LET valid == /\ body.metalType # "" /\ body.alertType # "" /\ body.targetValue # 0
                    /\ body.alertType \in {"price_above", "price_below", "volume_spike"}
           id == Len(trading_alerts) + 1
       IN /\ trading_alerts' =
                IF valid
                THEN Append(trading_alerts,
                            [id |-> id, user_id |-> userId, metal_type |-> body.metalType,
                             alert_type |-> body.alertType,
                             target_value |-> body.targetValue,
                             is_active |-> TRUE, triggered_at |-> Null])
                ELSE trading_alerts
          /\ Step(r, IF valid THEN Done("alert", userId, id, 201, "", Null)
                               ELSE Done("alert", userId, 0, 400, "invalid", Null))
    /\ UNCHANGED <<legacyVars, pnlVars, tickVars, riskVars, statVars, errVars, lastHit>>
    /\ UNCHANGED <<hedging_positions, market_data, audit_log, notifications, now,
                   marketDataCache, lastCacheUpdate, plWritten, closedOk>>

\* users.js lines 207-225: PUT /alerts/:id, target_value and is_active are
\* written on the caller's alert; triggered_at is left as it is
UpdateAlert(r, userId, id, body) ==
    /\ Arrive(r)
    /\ trading_alerts' =
          [i \in DOMAIN trading_alerts |->
             IF trading_alerts[i].id = id /\ trading_alerts[i].user_id = userId
             THEN [trading_alerts[i] EXCEPT !.target_value = body.targetValue,
                                            !.is_active = body.isActive]
             ELSE trading_alerts[i]]
    /\ Step(r, Done("alert", userId, id, 200, "", Null))
    /\ UNCHANGED <<legacyVars, pnlVars, tickVars, riskVars, statVars, errVars, lastHit>>
    /\ UNCHANGED <<hedging_positions, market_data, audit_log, notifications, now,
                   marketDataCache, lastCacheUpdate, plWritten, closedOk>>

\* part_002 lines 328-346: shouldTrigger && !alert.triggered_at, on the row read
shouldFire(alert) ==
    /\ alert.current_price # <<>> /\ alert.current_price[1] # 0
    /\ \/ alert.alert_type = "price_above"
          /\ alert.current_price[1] >= alert.target_value
       \/ alert.alert_type = "price_below"
          /\ alert.current_price[1] <= alert.target_value
    /\ alert.triggered_at = Null

\* lines 314-325: the caller's active alerts joined with the fresh price
\* (rows created in the same second are read in rowid order, newest first)
alertsQuery(userId) ==
    LET Own(row) == row.user_id = userId /\ row.is_active
        rows == SelectSeq(Reverse(trading_alerts), Own)
    IN [i \in DOMAIN rows |->
          [id |-> rows[i].id, metal_type |-> rows[i].metal_type,
           alert_type |-> rows[i].alert_type, target_value |-> rows[i].target_value,
           triggered_at |-> rows[i].triggered_at,
           current_price |-> freshPrice(rows[i].metal_type)]]

\* lines 309-346: the request arrives and the alerts are read; the loop will
\* handle the alerts of this reading that should fire
Alerts(r, userId) ==
    /\ Arrive(r)
    /\ LET tradingAlerts == alertsQuery(userId)
           toFire == SelectSeq(tradingAlerts, shouldFire)
       IN Step(r, [pc |-> IF toFire = <<>> THEN "afinish" ELSE "amark",
                   kind |-> "alerts", user |-> userId,
                   toFire |-> toFire, triggeredAlerts |-> 0])
    /\ UNCHANGED <<legacyVars, pnlVars, tickVars, riskVars, statVars, errVars, lastHit>>
    /\ UNCHANGED <<trading_alerts, hedging_positions, market_data, audit_log,
                   notifications, now, marketDataCache, lastCacheUpdate,
                   plWritten, closedOk>>

\* lines 347-352: UPDATE trading_alerts SET triggered_at = CURRENT_TIMESTAMP WHERE id = ?
AlertsMark(r) ==
    /\ req[r].pc = "amark"
    /\ trading_alerts' =
          [i \in DOMAIN trading_alerts |->
             IF trading_alerts[i].id = Head(req[r].toFire).id
             THEN [trading_alerts[i] EXCEPT !.triggered_at = <<now>>]
             ELSE trading_alerts[i]]
    /\ Step(r, [req[r] EXCEPT !.pc = "anotify",
                              !.triggeredAlerts = req[r].triggeredAlerts + 1])
    /\ UNCHANGED <<legacyVars, pnlVars, tickVars, riskVars, statVars, errVars, lastHit>>
    /\ UNCHANGED <<hedging_positions, market_data, audit_log, notifications, now,
                   marketDataCache, lastCacheUpdate, nreq, plWritten, closedOk>>

\* lines 354-363: the notification of the alert is inserted (its message names
\* the metal, the target and the price; alert is the id of the row it is about)
AlertsNotify(r) ==
    /\ req[r].pc = "anotify"
    /\ notifications' =
          Append(notifications,
                 [user_id |-> req[r].user, title |-> "Price Alert Triggered",
                  alert |-> Head(req[r].toFire).id])
    /\ Step(r, [req[r] EXCEPT
                  !.pc = IF Tail(req[r].toFire) = <<>> THEN "afinish" ELSE "amark",
                  !.toFire = Tail(req[r].toFire)])
    /\ UNCHANGED <<legacyVars, pnlVars, tickVars, riskVars, statVars, errVars, lastHit>>
    /\ UNCHANGED <<trading_alerts, hedging_positions, market_data, audit_log, now,
                   marketDataCache, lastCacheUpdate, nreq, plWritten, closedOk>>

\* lines 368-410: the notifications and the expiring positions are read, then 200
AlertsFinish(r) ==
    /\ req[r].pc = "afinish"
    /\ Step(r, Done("alerts", req[r].user, 0, 200, "",
                    [triggeredAlerts |-> req[r].triggeredAlerts]))
    /\ UNCHANGED <<legacyVars, pnlVars, tickVars, riskVars, statVars, errVars, lastHit>>
    /\ UNCHANGED <<trading_alerts, hedging_positions, market_data, audit_log,
                   notifications, now, marketDataCache, lastCacheUpdate, nreq,
                   plWritten, closedOk>>

(***************************************************************************)
(* GET /market/data                                                        *)
(***************************************************************************)

\* changePercent = (Math.random() - 0.5) * 4, in tenths of a percent: two draws
ChangePercents == {-20, 15}

\* line 17: the cache is fresh and holds an entry
cacheHit ==
    now - lastCacheUpdate < CACHE_DURATION /\ DOMAIN marketDataCache # {}

\* lines 12-23: the request arrives, the cache is looked up
MarketData(r) ==
    /\ Arrive(r)
    /\ Step(r,
                 IF cacheHit
                 THEN Done("market", "", 0, 200, "",
                           [cached |-> TRUE, data |-> marketDataCache])
                 ELSE [pc |-> "mread", kind |-> "market", now |-> now,
                       latestData |-> <<>>, todo |-> {}])
    /\ lastHit' = IF cacheHit
                  THEN <<[at |-> now, data |-> marketDataCache]>>
                  ELSE lastHit
    /\ UNCHANGED <<legacyVars, pnlVars, tickVars, riskVars, statVars, errVars, trading_alerts>>
    /\ UNCHANGED <<hedging_positions, market_data, audit_log, notifications, now,
                   marketDataCache, lastCacheUpdate, plWritten, closedOk>>

\* lines 25-39: the ticks of the last hour are read, the latest of each metal kept
MarketDataRead(r) ==
    /\ req[r].pc = "mread"
    /\ LET metals == {m \in StoredMetals : FreshTicksOf(m) # {}}
           latestData == [m \in metals |->
                            [price |-> market_data[Max(FreshTicksOf(m))].price,
                             timestamp |-> market_data[Max(FreshTicksOf(m))].timestamp]]
       IN Step(r,
                    [req[r] EXCEPT !.pc = IF metals = {} THEN "mfinish" ELSE "minsert",
                                   !.latestData = latestData,
                                   !.todo = metals])
    /\ UNCHANGED <<legacyVars, pnlVars, tickVars, riskVars, statVars, errVars, trading_alerts, lastHit>>
    /\ UNCHANGED <<hedging_positions, market_data, audit_log, notifications, now,
                   marketDataCache, lastCacheUpdate, nreq, plWritten, closedOk>>

\* a plausible slip: the move is twice the draw
newPrice_double(price, changePercent) == RoundDiv(price * (1000 + 2 * changePercent), 1000)

\* lines 217-218, 232: parseFloat(newPrice.toFixed(2)), changePercent in tenths of a percent
newPrice(price, changePercent) == RoundDiv(price * (1000 + changePercent), 1000)

\* lines 222-223, 234: Math.round(Math.max(0, current.volume * (1 + volumeChange))),
\* volumeChange in thousandths
newVolume(volume, volumeChange) ==
    LET v == volume * (1000 + volumeChange)
    IN RoundDiv(IF v < 0 THEN 0 ELSE v, 1000)

\* lines 213-236: the row simulatePriceChanges inserts for a current row
simulateTick(current, changePercent, volumeChange) ==
    [price |-> newPrice(current.price, changePercent),
     volume |-> newVolume(current.volume, volumeChange)]

\* a plausible slip: the tick replaces the newest tick of its metal
insertTick_replace(ticks, tick) ==
    LET S == {i \in DOMAIN ticks : ticks[i].metal_type = tick.metal_type}
    IN IF S = {} THEN Append(ticks, tick) ELSE [ticks EXCEPT ![Max(S)] = tick]

\* lines 226-236: INSERT INTO market_data
insertTick(ticks, tick) == Append(ticks, tick)

\* lines 209-248: one turn of the loop of simulatePriceChanges, one tick inserted
SimulatePriceChanges(r, changePercent) ==
    /\ req[r].pc = "minsert"
    /\ LET metal == CHOOSE m \in req[r].todo : TRUE
           current == req[r].latestData[metal]
           price == newPrice(current.price, changePercent)
       IN /\ market_data' = insertTick(market_data, [metal_type |-> metal,
                                                     price |-> price,
                                                     timestamp |-> now])
          /\ Step(r,
                       [req[r] EXCEPT
                          !.pc = IF req[r].todo = {metal} THEN "mfinish" ELSE "minsert",
                          !.latestData = [req[r].latestData EXCEPT
                                            ![metal] = [price |-> price,
                                                        timestamp |-> now]],
                          !.todo = req[r].todo \ {metal}])
    /\ UNCHANGED <<legacyVars, pnlVars, tickVars, riskVars, statVars, errVars, trading_alerts, lastHit>>
    /\ UNCHANGED <<hedging_positions, audit_log, notifications, now,
                   marketDataCache, lastCacheUpdate, nreq, plWritten, closedOk>>

\* lines 49-57: the cache is replaced, then 200
MarketDataFinish(r) ==
    /\ req[r].pc = "mfinish"
    /\ marketDataCache' = req[r].latestData
    /\ lastCacheUpdate' = req[r].now
    /\ Step(r,
                 Done("market", "", 0, 200, "",
                      [cached |-> FALSE, data |-> req[r].latestData]))
    /\ UNCHANGED <<legacyVars, pnlVars, tickVars, riskVars, statVars, errVars, trading_alerts, lastHit>>
    /\ UNCHANGED <<hedging_positions, market_data, audit_log, notifications, now,
                   nreq, plWritten, closedOk>>

\* time passes
Clock ==
    /\ \E t \in Instants : t > now /\ now' = t
    /\ res' = NoResponse
    /\ UNCHANGED <<legacyVars, pnlVars, tickVars, riskVars, statVars, errVars, trading_alerts, lastHit>>
    /\ UNCHANGED <<hedging_positions, market_data, audit_log, notifications,
                   marketDataCache, lastCacheUpdate, req, nreq, plWritten, closedOk>>

(***************************************************************************)
(* The hedging application                                                 *)
(***************************************************************************)

\* seedInitialData: one tick for each of the metals, stamped with the start time
seedTicksOf(metals) ==
    LET Seeded(d) == d.metal \in metals
        data == SelectSeq(initialMarketData, Seeded)
    IN [i \in DOMAIN data |-> [metal_type |-> data[i].metal,
                               price |-> data[i].price,
                               timestamp |-> CACHE_DURATION]]

seedTicks == seedTicksOf(SeededMetals)

InitRouter ==
    /\ hedging_positions = <<>>
    /\ market_data = seedTicks
    /\ audit_log = <<>>
    /\ notifications = <<>>
    /\ now = CACHE_DURATION
    /\ marketDataCache = <<>>
    /\ lastCacheUpdate = 0
    /\ req = [r \in Slots |-> Idle]
    /\ res = NoResponse
    /\ nreq = 0
    /\ plWritten = {}
    /\ closedOk = {}
    /\ lastHit = Null
    /\ trading_alerts = <<>>

InitLegacy ==
    /\ positions = <<>>
    /\ legacy_res = [kind |-> "none", user |-> "", status |-> 0, out |-> 0]

InitPnL == pnl_in = Null /\ pnl_out = Null

InitTick == tick_in = Null /\ tick_out = Null

InitRisk == risk_in = Null /\ risk_out = Null

InitStat == stat_in = Null /\ stat_out = Null

InitErr == err_in = Null /\ err_out = Null

Init == InitRouter /\ InitLegacy /\ InitPnL /\ InitTick /\ InitRisk /\ InitStat /\ InitErr

\* the bodies of POST /positions the model sends (prices in cents, quantity in tenths)
CreateBodies ==
    { [metalType |-> "lead", positionType |-> "long", quantity |-> 10,
       entryPrice |-> 218530, targetPrice |-> Null, stopLoss |-> Null,
       contractDate |-> 1, expiryDate |-> 2],
      [metalType |-> "lead", positionType |-> "short", quantity |-> 25,
       entryPrice |-> 240383, targetPrice |-> <<230000>>, stopLoss |-> Null,
       contractDate |-> 1, expiryDate |-> 1],
      [metalType |-> "lead", positionType |-> "long", quantity |-> 10,
       entryPrice |-> 240384, targetPrice |-> Null, stopLoss |-> Null,
       contractDate |-> 1, expiryDate |-> 2],
      [metalType |-> "gold", positionType |-> "long", quantity |-> 10,
       entryPrice |-> 5000, targetPrice |-> Null, stopLoss |-> Null,
       contractDate |-> 1, expiryDate |-> 2],
      [metalType |-> "lead", positionType |-> "hold", quantity |-> 10,
       entryPrice |-> 218530, targetPrice |-> Null, stopLoss |-> Null,
       contractDate |-> 1, expiryDate |-> 2],
      [metalType |-> "lead", positionType |-> "long", quantity |-> -10,
       entryPrice |-> 218530, targetPrice |-> Null, stopLoss |-> Null,
       contractDate |-> 1, expiryDate |-> 2],
      [metalType |-> "lead", positionType |-> "long", quantity |-> 10,
       entryPrice |-> 218530, targetPrice |-> Null, stopLoss |-> Null,
       contractDate |-> 2, expiryDate |-> 1],
      [metalType |-> "", positionType |-> "long", quantity |-> 10,
       entryPrice |-> 218530, targetPrice |-> Null, stopLoss |-> Null,
       contractDate |-> 1, expiryDate |-> 2] }

\* user A sends every body, user B the second one
BodiesOf(u) ==
    IF u = "A" THEN CreateBodies
    ELSE {b \in CreateBodies : b.positionType = "short"}

\* the bodies of PUT /positions/:id the model sends
PutBodies ==
    { [targetPrice |-> Null, stopLoss |-> Null, status |-> "closed"],
      [targetPrice |-> Null, stopLoss |-> Null, status |-> "active"],
      [targetPrice |-> <<225000>>, stopLoss |-> Null, status |-> ""],
      [targetPrice |-> <<225000>>, stopLoss |-> Null, status |-> "expired"],
      [targetPrice |-> Null, stopLoss |-> Null, status |-> ""] }

\* user A sends every body, user B the first one
PutBodiesOf(u) ==
    IF u = "A" THEN PutBodies ELSE {b \in PutBodies : b.status = "closed"}

\* the close prices the model sends, 0 for none
ClosePrices == {0, 230000}

\* user A sends both, user B sends none
ClosePricesOf(u) == IF u = "A" THEN ClosePrices ELSE {0}

\* the ids a request may name
Ids == 1..MaxPositions

\* a creation may start: the table of the model has room for its row
Room(max) == Len(hedging_positions) + PendingCreates < max

Next ==
    \/ \E r \in Slots, u \in Users : \E b \in BodiesOf(u) :
          nreq < MaxRequests /\ Room(MaxPositions) /\ PostPositions(r, u, b)
    \/ \E r \in Slots : PostPositionsCount(r)
    \/ \E r \in Slots : PostPositionsMarket(r)
    \/ \E r \in Slots : PostPositionsInsert(r)
    \/ \E r \in Slots : PostPositionsAudit(r)
    \/ \E r \in Slots : PostPositionsNotify(r)
    \/ \E r \in Slots, u \in Users, id \in Ids : \E b \in PutBodiesOf(u) :
          nreq < MaxRequests /\ PutPosition(r, u, id, b)
    \/ \E r \in Slots : PutPositionMarket(r)
    \/ \E r \in Slots : PutPositionUpdate(r)
    \/ \E r \in Slots : PutPositionAudit(r)
    \/ \E r \in Slots, u \in Users, id \in Ids : \E c \in ClosePricesOf(u) :
          nreq < MaxRequests /\ ClosePosition(r, u, id, c)
    \/ \E r \in Slots : ClosePositionMarket(r)
    \/ \E r \in Slots : ClosePositionUpdate(r)
    \/ \E r \in Slots : ClosePositionAudit(r)
    \/ \E r \in Slots : ClosePositionNotify(r)
    \/ \E r \in Slots, u \in Users : nreq < MaxRequests /\ GetPositions(r, u)
    \/ \E r \in Slots : nreq < MaxRequests /\ MarketData(r)
    \/ \E r \in Slots : MarketDataRead(r)
    \/ \E r \in Slots, c \in ChangePercents : SimulatePriceChanges(r, c)
    \/ \E r \in Slots : MarketDataFinish(r)
    \/ Clock

Spec == Init /\ [][Next]_vars

(***************************************************************************)
(* The hedging application, one user filling the plan's ceiling            *)
(***************************************************************************)

\* the one body user A sends: lead, long, at the seeded price
CeilBodies == {b \in CreateBodies : b.entryPrice = 218530 /\ validate(b) = "ok"}

\* the bodies of PUT the user sends: status closed, status active
CeilPutBodies == {b \in PutBodies : b.status \in {"closed", "active"}}

NextCeiling ==
    \/ \E r \in Slots, b \in CeilBodies :
          nreq < MaxCeilRequests /\ Room(MaxCeilPositions) /\ PostPositions(r, "A", b)
    \/ \E r \in Slots : PostPositionsCount(r)
    \/ \E r \in Slots : PostPositionsMarket(r)
    \/ \E r \in Slots : PostPositionsInsert(r)
    \/ \E r \in Slots : PostPositionsAudit(r)
    \/ \E r \in Slots : PostPositionsNotify(r)
    \/ \E r \in Slots, b \in CeilPutBodies :
          nreq < MaxCeilRequests /\ PutPosition(r, "A", 1, b)
    \/ \E r \in Slots : PutPositionMarket(r)
    \/ \E r \in Slots : PutPositionUpdate(r)
    \/ \E r \in Slots : PutPositionAudit(r)
    \/ \E r \in Slots : nreq < MaxCeilRequests /\ ClosePosition(r, "A", 1, 0)
    \/ \E r \in Slots : ClosePositionMarket(r)
    \/ \E r \in Slots : ClosePositionUpdate(r)
    \/ \E r \in Slots : ClosePositionAudit(r)
    \/ \E r \in Slots : ClosePositionNotify(r)

SpecCeiling == Init /\ [][NextCeiling]_vars

(***************************************************************************)
(* The market feed alone: GET /market/data and the clock                   *)
(***************************************************************************)

MaxFeedRequests == 4    \* requests received in one run of SpecFeed
MaxFeedTicks == 5       \* rows of market_data beyond which no refresh starts in SpecFeed

\* the metals seeded in the runs of the feed
FeedMetals == {"lead", "zinc"}

\* the instants the clock of the feed visits: the start, one cache period
\* later, one hour later
FeedInstants == {CACHE_DURATION, 2 * CACHE_DURATION, CACHE_DURATION + Hour}

\* time passes
FeedClock ==
    /\ \E t \in FeedInstants : t > now /\ now' = t
    /\ res' = NoResponse
    /\ UNCHANGED <<legacyVars, pnlVars, tickVars, riskVars, statVars, errVars, trading_alerts, lastHit>>
    /\ UNCHANGED <<hedging_positions, market_data, audit_log, notifications,
                   marketDataCache, lastCacheUpdate, req, nreq, plWritten, closedOk>>

InitFeed ==
    /\ hedging_positions = <<>>
    /\ market_data = seedTicksOf(FeedMetals)
    /\ audit_log = <<>>
    /\ notifications = <<>>
    /\ now = CACHE_DURATION
    /\ marketDataCache = <<>>
    /\ lastCacheUpdate = 0
    /\ req = [r \in Slots |-> Idle]
    /\ res = NoResponse
    /\ nreq = 0
    /\ plWritten = {}
    /\ closedOk = {}
    /\ lastHit = Null
    /\ trading_alerts = <<>>
    /\ InitLegacy /\ InitPnL /\ InitTick /\ InitRisk /\ InitStat /\ InitErr

NextFeed ==
    \/ \E r \in Slots : /\ nreq < MaxFeedRequests
                         /\ (cacheHit \/ Len(market_data) < MaxFeedTicks)
                         /\ MarketData(r)
    \/ \E r \in Slots : MarketDataRead(r)
    \/ \E r \in Slots, c \in ChangePercents : SimulatePriceChanges(r, c)
    \/ \E r \in Slots : MarketDataFinish(r)
    \/ FeedClock

SpecFeed == InitFeed /\ [][NextFeed]_vars

(***************************************************************************)
(* The legacy application (server.js, database/database.js)                *)
(***************************************************************************)

\* a JSON value of a request body: a number, or a string that parses to v
JsonNumber(v) == [t |-> "number", v |-> v]
JsonString(v) == [t |-> "string", v |-> v]

\* !x is false: a number other than 0, or a string that is not empty
truthy(x) == x.t = "string" \/ x.v # 0

parseFloat(x) == x.v

\* basePrices[metal.toUpperCase()] || 1000, in cents
basePrice(metal) ==
    IF metal = "copper" THEN 850000
    ELSE IF metal = "aluminum" THEN 237400
    ELSE IF metal = "zinc" THEN 301700
    ELSE IF metal = "nickel" THEN 2121800
    ELSE IF metal = "lead" THEN 215100
    ELSE IF metal = "tin" THEN 2460500
    ELSE 100000

\* variation = (Math.random() - 0.5) * 0.1, in thousandths: three draws
Variations == {-50, 0, 37}

\* Database.getCurrentPrice: the base price moved by the variation, two decimals
getCurrentPrice(metal, variation) == RoundDiv(basePrice(metal) * (1000 + variation), 1000)

\* server.js line 170: the required fields are there
legacyValid(body) ==
    /\ body.metal # "" /\ body.type # ""
    /\ truthy(body.quantity) /\ truthy(body.entryPrice)

\* server.js lines 166-194, Database.createPosition: the whole handler
PostApiPositions(userId, body) ==
    /\ Len(positions) < MaxLegacyPositions
    /\ IF legacyValid(body)
       THEN /\ positions' = Append(positions,
                   [id |-> Len(positions) + 1, userId |-> userId,
                    metal |-> body.metal, type |-> body.type,
                    quantity |-> parseFloat(body.quantity),
                    entryPrice |-> parseFloat(body.entryPrice),
                    contractDate |-> body.contractDate,
                    expiryDate |-> body.expiryDate,
                    status |-> "active", pnl |-> 0])
            /\ legacy_res' = [kind |-> "create", user |-> userId, status |-> 201,
                              out |-> Len(positions) + 1]
       ELSE /\ positions' = positions
            /\ legacy_res' = [kind |-> "create", user |-> userId, status |-> 400,
                              out |-> 0]
    /\ UNCHANGED <<routerVars, pnlVars, tickVars, riskVars, statVars, errVars, trading_alerts>>

\* server.js lines 156-164, Database.getUserPositions: the whole handler;
\* variation gives the draw of getCurrentPrice for each row
GetApiPositions(userId, variation) ==
    /\ LET Own(row) == row.userId = userId
           rows == SelectSeq(Reverse(positions), Own)
           updatedPositions ==
              [i \in DOMAIN rows |->
                 LET currentPrice == getCurrentPrice(rows[i].metal, variation[rows[i].id])
                     pnl == calculatePnL(rows[i], currentPrice)
                 IN [id |-> rows[i].id, userId |-> rows[i].userId,
                     type |-> rows[i].type, quantity |-> rows[i].quantity,
                     entryPrice |-> rows[i].entryPrice,
                     currentPrice |-> currentPrice,
                     pnl |-> pnl.amount, pnlPercentage |-> pnl.percentage]]
       IN legacy_res' = [kind |-> "list", user |-> userId, status |-> 200,
                         out |-> updatedPositions]
    /\ UNCHANGED <<positions, routerVars, pnlVars, tickVars, riskVars, statVars, errVars, trading_alerts>>

\* the bodies of POST /api/positions the model sends
LegacyBodies ==
    { [metal |-> "lead", type |-> "long", quantity |-> JsonNumber(10),
       entryPrice |-> JsonNumber(215100), contractDate |-> 1, expiryDate |-> 2],
      [metal |-> "gold", type |-> "short", quantity |-> JsonString(25),
       entryPrice |-> JsonNumber(100000), contractDate |-> 1, expiryDate |-> 1],
      [metal |-> "lead", type |-> "sideways", quantity |-> JsonNumber(10),
       entryPrice |-> JsonNumber(215100), contractDate |-> 1, expiryDate |-> 2],
      [metal |-> "lead", type |-> "long", quantity |-> JsonNumber(-10),
       entryPrice |-> JsonNumber(215100), contractDate |-> 1, expiryDate |-> 2],
      [metal |-> "lead", type |-> "long", quantity |-> JsonString(0),
       entryPrice |-> JsonNumber(215100), contractDate |-> 1, expiryDate |-> 2],
      [metal |-> "lead", type |-> "long", quantity |-> JsonNumber(0),
       entryPrice |-> JsonNumber(215100), contractDate |-> 1, expiryDate |-> 2],
      [metal |-> "lead", type |-> "short", quantity |-> JsonNumber(10),
       entryPrice |-> JsonString(0), contractDate |-> 1, expiryDate |-> 2],
      [metal |-> "lead", type |-> "long", quantity |-> JsonNumber(10),
       entryPrice |-> JsonNumber(215100), contractDate |-> 2, expiryDate |-> 1],
      [metal |-> "", type |-> "long", quantity |-> JsonNumber(10),
       entryPrice |-> JsonNumber(215100), contractDate |-> 1, expiryDate |-> 2] }

NextLegacy ==
    \/ \E u \in Users, b \in LegacyBodies : PostApiPositions(u, b)
    \/ \E u \in Users, v \in [DOMAIN positions -> Variations] : GetApiPositions(u, v)

SpecLegacy == Init /\ [][NextLegacy]_vars

(***************************************************************************)
(* The P&L engine alone                                                    *)
(***************************************************************************)

\* entry price and current price, in cents
PnLPrices ==
    { <<10000, 11000>>, <<10000, 9000>>, <<10000, 10007>>,
      <<700, 800>>, <<333, 334>>, <<700, 700>> }

\* quantities, in tenths
PnLQuantities == {1, 3, 10, 30, 100}

\* what the legacy application can hand to calculatePnL: any type, any quantity
LegacyPnLInputs ==
    { [path |-> "calculatePnL", type |-> t, quantity |-> q,
       entryPrice |-> p[1], currentPrice |-> p[2]] :
         t \in {"long", "short", "sideways"},
         q \in PnLQuantities \cup {0, -10},
         p \in PnLPrices }

\* what GET /positions can hand to its enrichment: rows that passed the validation
RouterPnLInputs ==
    { [path |-> "enrichPosition", type |-> t, quantity |-> q,
       entryPrice |-> p[1], currentPrice |-> p[2]] :
         t \in {"long", "short"}, q \in PnLQuantities, p \in PnLPrices }

\* Database.calculatePnL is applied
CalculatePnL ==
    /\ pnl_in.path = "calculatePnL"
    /\ pnl_out = Null
    /\ pnl_out' = <<calculatePnL(pnl_in, pnl_in.currentPrice)>>
    /\ UNCHANGED <<pnl_in, routerVars, legacyVars, tickVars, riskVars, statVars, errVars, trading_alerts>>

\* the enrichment of GET /positions is applied
EnrichPosition ==
    /\ pnl_in.path = "enrichPosition"
    /\ pnl_out = Null
    /\ LET e == enrichPosition([id |-> 1, user_id |-> "A", status |-> "active",
                                position_type |-> pnl_in.type,
                                quantity |-> pnl_in.quantity,
                                entry_price |-> pnl_in.entryPrice,
                                current_market_price |-> <<pnl_in.currentPrice>>])
       IN pnl_out' = <<[amount |-> e.profit_loss,
                        percentage |-> e.profit_loss_percent]>>
    /\ UNCHANGED <<pnl_in, routerVars, legacyVars, tickVars, riskVars, statVars, errVars, trading_alerts>>

InitPnLEngine ==
    /\ InitRouter
    /\ InitLegacy
    /\ InitTick
    /\ InitRisk
    /\ InitStat
    /\ InitErr
    /\ pnl_in \in LegacyPnLInputs \cup RouterPnLInputs
    /\ pnl_out = Null

NextPnL == CalculatePnL \/ EnrichPosition

SpecPnL == InitPnLEngine /\ [][NextPnL]_vars

(***************************************************************************)
(* The tick generator alone                                                *)
(***************************************************************************)

\* current prices, in cents: one cent, a quarter, the seeds of lead and zinc
TickPrices == {1, 26, 218530, 312025}

\* current volumes
TickVolumes == {0, 3, 500000, 750000}

\* changePercent = (Math.random() - 0.5) * 4, in tenths of a percent: five draws
TickChangePercents == {-20, -7, 0, 15, 19}

\* volumeChange = (Math.random() - 0.5) * 0.4, in thousandths: five draws
VolumeChanges == {-200, -63, 0, 137, 199}

TickInputs ==
    [current : [price : TickPrices, volume : TickVolumes],
     changePercent : TickChangePercents, volumeChange : VolumeChanges]

\* one turn of the loop of simulatePriceChanges is applied
SimulateTick ==
    /\ tick_in # Null /\ tick_out = Null
    /\ tick_out' = <<simulateTick(tick_in.current, tick_in.changePercent,
                                  tick_in.volumeChange)>>
    /\ UNCHANGED <<tick_in, routerVars, legacyVars, pnlVars, riskVars, statVars, errVars, trading_alerts>>

InitTickEngine ==
    /\ InitRouter /\ InitLegacy /\ InitPnL /\ InitRisk /\ InitStat /\ InitErr
    /\ tick_in \in TickInputs
    /\ tick_out = Null

NextTick == SimulateTick

SpecTick == InitTickEngine /\ [][NextTick]_vars

(***************************************************************************)
(* One user's positions read by the list and by the dashboard              *)
(***************************************************************************)

MaxDashRequests == 4    \* requests received in one run of SpecDashboard
MaxDashPositions == 2   \* rows of hedging_positions in SpecDashboard

\* the bodies user A sends: lead at the seeded price, lead short above it, and
\* gold, a metal without a tick, for a value with half a cent
DashBodies ==
    {b \in CreateBodies : /\ validate(b) = "ok"
                          /\ b.entryPrice \in {218530, 240383}}
    \cup {[metalType |-> "gold", positionType |-> "long", quantity |-> 25,
           entryPrice |-> 5001, targetPrice |-> Null, stopLoss |-> Null,
           contractDate |-> 1, expiryDate |-> 2]}

\* the one body user B sends
DashBodiesB == {b \in DashBodies : b.positionType = "short"}

NextDashboard ==
    \/ \E r \in Slots, b \in DashBodies :
          nreq < MaxDashRequests - 1 /\ Room(MaxDashPositions) /\ PostPositions(r, "A", b)
    \/ \E r \in Slots, b \in DashBodiesB :
          nreq < MaxDashRequests - 2 /\ Room(MaxDashPositions) /\ PostPositions(r, "B", b)
    \/ \E r \in Slots : PostPositionsCount(r)
    \/ \E r \in Slots : PostPositionsMarket(r)
    \/ \E r \in Slots : PostPositionsInsert(r)
    \/ \E r \in Slots : PostPositionsAudit(r)
    \/ \E r \in Slots : PostPositionsNotify(r)
    \/ \E r \in Slots, id \in Ids, c \in ClosePrices :
          nreq < MaxDashRequests - 1 /\ ClosePosition(r, "A", id, c)
    \/ \E r \in Slots : ClosePositionMarket(r)
    \/ \E r \in Slots : ClosePositionUpdate(r)
    \/ \E r \in Slots : ClosePositionAudit(r)
    \/ \E r \in Slots : ClosePositionNotify(r)
    \/ \E r \in Slots : nreq < MaxDashRequests /\ GetPositions(r, "A")
    \/ \E r \in Slots : nreq < MaxDashRequests /\ Overview(r, "A")
    \/ \E r \in Slots : OverviewActivePnL(r)
    \/ \E r \in Slots : OverviewRealized(r)
    \/ \E r \in Slots : OverviewFinish(r)
    \/ \E r \in Slots : nreq < MaxDashRequests /\ RiskMetrics(r, "A")
    \/ \E r \in Slots : RiskMetricsVolatility(r)
    \/ \E r \in Slots : nreq < MaxDashRequests - 1 /\ MarketData(r)
    \/ \E r \in Slots : MarketDataRead(r)
    \/ \E r \in Slots, c \in ChangePercents : SimulatePriceChanges(r, c)
    \/ \E r \in Slots : MarketDataFinish(r)
    \/ Clock

SpecDashboard == Init /\ [][NextDashboard]_vars

(***************************************************************************)
(* The trading alerts of one user, the market feed and the clock           *)
(***************************************************************************)

MaxAlertRequests == 4   \* requests received in one run of SpecAlerts
MaxAlerts == 2          \* rows of trading_alerts in SpecAlerts

\* the bodies of POST /alerts: lead above a price it has reached, lead below a
\* price it reaches with the next fall, no metal
AlertBodies ==
    {[metalType |-> "lead", alertType |-> "price_above", targetValue |-> 200000],
     [metalType |-> "lead", alertType |-> "price_below", targetValue |-> 215000],
     [metalType |-> "", alertType |-> "price_above", targetValue |-> 200000]}

\* the bodies of PUT /alerts/:id: another target, the alert switched off
AlertUpdates ==
    {[targetValue |-> 210000, isActive |-> TRUE],
     [targetValue |-> 200000, isActive |-> FALSE]}

NextAlerts ==
    \/ \E r \in Slots, b \in AlertBodies :
          /\ nreq < MaxAlertRequests - 1 /\ Len(trading_alerts) < MaxAlerts
          /\ CreateAlert(r, "A", b)
    \/ \E r \in Slots, id \in 1..MaxAlerts, b \in AlertUpdates :
          nreq < MaxAlertRequests - 1 /\ UpdateAlert(r, "A", id, b)
    \/ \E r \in Slots : nreq < MaxAlertRequests /\ Alerts(r, "A")
    \/ \E r \in Slots : AlertsMark(r)
    \/ \E r \in Slots : AlertsNotify(r)
    \/ \E r \in Slots : AlertsFinish(r)
    \/ \E r \in Slots : nreq < MaxAlertRequests - 1 /\ MarketData(r)
    \/ \E r \in Slots : MarketDataRead(r)
    \/ \E r \in Slots, c \in ChangePercents : SimulatePriceChanges(r, c)
    \/ \E r \in Slots : MarketDataFinish(r)
    \/ Clock

SpecAlerts == Init /\ [][NextAlerts]_vars

(***************************************************************************)
(* The win rates on their own: the rows of a user in, the win rates out    *)
(***************************************************************************)

MaxStatRows == 3        \* rows of one user in SpecStats

\* rows of hedging_positions as the handlers leave them: closed with a gain,
\* a loss or neither, young or older than 30 days; active rows
StatRows ==
    {[status |-> "closed", profit_loss |-> 5000, age |-> 1],
     [status |-> "closed", profit_loss |-> -5000, age |-> 1],
     [status |-> "closed", profit_loss |-> 0, age |-> 1],
     [status |-> "closed", profit_loss |-> 5000, age |-> 40],
     [status |-> "active", profit_loss |-> 0, age |-> 1],
     [status |-> "active", profit_loss |-> 5000, age |-> 1]}

\* rows of the legacy table positions: no statement of the legacy application
\* writes status or pnl, every row keeps the defaults
LegacyStatRows == {[status |-> "active", pnl |-> 0]}

\* the periods of /analytics: 7d, 30d (the default), 90d
Periods == {7, 30, 90}

StatInputs ==
    {[rows |-> rs, legacy |-> ls, period |-> p] :
       rs \in UNION {[1..n -> StatRows] : n \in 0..MaxStatRows},
       ls \in UNION {[1..n -> LegacyStatRows] : n \in 0..1},
       p \in Periods}

ComputeWinRates ==
    /\ stat_in # Null /\ stat_out = Null
    /\ stat_out' = <<[overview |-> winRate(winningTrades(stat_in.rows),
                                           closedTrades(stat_in.rows)),
                      analytics |-> analyticsWinRate(stat_in.rows, stat_in.period),
                      legacy |-> legacyWinRate(stat_in.legacy)]>>
    /\ UNCHANGED <<stat_in, routerVars, legacyVars, pnlVars, tickVars, riskVars,
                   errVars, trading_alerts>>

InitStatEngine ==
    /\ InitRouter /\ InitLegacy /\ InitPnL /\ InitTick /\ InitRisk /\ InitErr
    /\ stat_in \in StatInputs
    /\ stat_out = Null

NextStats == ComputeWinRates

SpecStats == InitStatEngine /\ [][NextStats]_vars

(***************************************************************************)
(* POST /positions with a store that can fail                              *)
(***************************************************************************)

MaxFailRequests == 3    \* requests received in one run of SpecFailing

NextFailing ==
    \/ \E r \in Slots, u \in Users : \E b \in BodiesOf(u) :
          nreq < MaxFailRequests /\ Room(MaxPositions) /\ PostPositions(r, u, b)
    \/ \E r \in Slots : PostPositionsCount(r)
    \/ \E r \in Slots : PostPositionsMarket(r)
    \/ \E r \in Slots : PostPositionsInsert(r)
    \/ \E r \in Slots : PostPositionsAudit(r)
    \/ \E r \in Slots : PostPositionsNotify(r)
    \/ \E r \in Slots : PostPositionsFail(r)

SpecFailing == Init /\ [][NextFailing]_vars

(***************************************************************************)
(* Error reporting on its own: an error in, the response out               *)
(***************************************************************************)

\* the fixed messages of the catch blocks of the two routes
routeMessages ==
    [market |-> "Failed to fetch market data",
     create |-> "Failed to create hedging position"]

\* market.js lines 59-62, part_002 lines 657-660: the catch block of a route
\* logs the error and answers 500 with the route's message
routeCatch(route, err) ==
    [status |-> 500, error |-> routeMessages[route], stack |-> FALSE]

\* part_001 lines 1-42: errorHandler; 0 and "" stand for a missing field
errorHandler(err, NODE_ENV) ==
    LET message0 == IF err.message # "" THEN err.message ELSE "Internal Server Error"
        status0 == IF err.status # 0 THEN err.status ELSE 500
        e1 == IF err.name = "ValidationError"
              THEN [message |-> err.errors, status |-> 400]
              ELSE [message |-> message0, status |-> status0]
        e2 == IF err.name = "JsonWebTokenError"
              THEN [message |-> "Invalid token", status |-> 401] ELSE e1
        e3 == IF err.name = "TokenExpiredError"
              THEN [message |-> "Token expired", status |-> 401] ELSE e2
        e4 == IF err.code = "SQLITE_CONSTRAINT_UNIQUE"
              THEN [message |-> "Resource already exists", status |-> 409] ELSE e3
        e5 == IF NODE_ENV = "production" /\ e4.status = 500
              THEN [e4 EXCEPT !.message = "Internal Server Error"] ELSE e4
    IN [status |-> e5.status, error |-> e5.message,
        stack |-> NODE_ENV = "development"]

\* the errors raised: a failure of the store with and without a message or a
\* status of its own, a unique constraint, the errors of the token, a validation
Errors ==
    {[name |-> n, code |-> c, status |-> st, message |-> m,
      errors |-> IF n = "ValidationError" THEN "quantity is required" ELSE ""] :
       n \in {"Error", "ValidationError", "JsonWebTokenError", "TokenExpiredError"},
       c \in {"", "SQLITE_BUSY", "SQLITE_CONSTRAINT_UNIQUE"},
       st \in {0, 500, 503},
       m \in {"", "SQLITE_BUSY: database is locked"}}

\* process.env.NODE_ENV, "" when it is not set
Environments == {"production", "development", ""}

\* where the error is caught: the catch block of a route, or the middleware
ErrInputs ==
    {[at |-> a, err |-> e, NODE_ENV |-> v] :
       a \in {"market", "create", "errorHandler"}, e \in Errors, v \in Environments}

ReportError ==
    /\ err_in # Null /\ err_out = Null
    /\ err_out' = <<IF err_in.at = "errorHandler"
                     THEN errorHandler(err_in.err, err_in.NODE_ENV)
                     ELSE routeCatch(err_in.at, err_in.err)>>
    /\ UNCHANGED <<err_in, routerVars, legacyVars, pnlVars, tickVars, riskVars,
                   statVars, trading_alerts>>

InitErrEngine ==
    /\ InitRouter /\ InitLegacy /\ InitPnL /\ InitTick /\ InitRisk /\ InitStat
    /\ err_in \in ErrInputs
    /\ err_out = Null

NextErrors == ReportError

SpecErrors == InitErrEngine /\ [][NextErrors]_vars

(***************************************************************************)
(* The risk metrics on their own: a portfolio in, the metrics out          *)
(***************************************************************************)

MaxPortfolio == 4       \* active positions of one portfolio in SpecRisk

\* rows the positions query of /risk-metrics can return: three metals of equal
\* value, a smaller fourth, two of nearly equal value, two whose value has a
\* fraction of a cent; with and without a fresh price, with and without a stop loss
RiskPositions ==
    {[metal_type |-> "lead", position_type |-> "long", quantity |-> 10,
      entry_price |-> 300, stop_loss |-> Null, current_market_price |-> Null],
     [metal_type |-> "zinc", position_type |-> "long", quantity |-> 10,
      entry_price |-> 300, stop_loss |-> <<330>>, current_market_price |-> <<330>>],
     [metal_type |-> "tin", position_type |-> "short", quantity |-> 10,
      entry_price |-> 300, stop_loss |-> <<300>>, current_market_price |-> Null],
     [metal_type |-> "copper", position_type |-> "long", quantity |-> 10,
      entry_price |-> 100, stop_loss |-> Null, current_market_price |-> Null],
     [metal_type |-> "lead", position_type |-> "long", quantity |-> 1,
      entry_price |-> 12501, stop_loss |-> <<12000>>,
      current_market_price |-> <<12499>>],
     [metal_type |-> "zinc", position_type |-> "short", quantity |-> 1,
      entry_price |-> 12499, stop_loss |-> Null, current_market_price |-> Null],
     [metal_type |-> "tin", position_type |-> "short", quantity |-> 3,
      entry_price |-> 12501, stop_loss |-> Null, current_market_price |-> Null],
     [metal_type |-> "copper", position_type |-> "long", quantity |-> 3,
      entry_price |-> 12501, stop_loss |-> Null, current_market_price |-> Null]}

Portfolios == UNION {[1..n -> RiskPositions] : n \in 0..MaxPortfolio}

ComputeRiskMetrics ==
    /\ risk_in # Null /\ risk_out = Null
    /\ risk_out' = <<riskMetrics(risk_in[1])>>
    /\ UNCHANGED <<risk_in, routerVars, legacyVars, pnlVars, tickVars>>
    /\ UNCHANGED <<statVars, errVars, trading_alerts>>

InitRiskEngine ==
    /\ InitRouter /\ InitLegacy /\ InitPnL /\ InitTick /\ InitStat /\ InitErr
    /\ risk_in \in {<<p>> : p \in Portfolios}
    /\ risk_out = Null

NextRisk == ComputeRiskMetrics

SpecRisk == InitRiskEngine /\ [][NextRisk]_vars

(***************************************************************************)
(* Properties                                                              *)
(***************************************************************************)

\* C1: for every position, under every interleaving of PUT /positions/:id and
\* POST /positions/:id/close, a position that is closed stays closed (so its
\* status changes from active to closed at most once).
C1_ClosedIsFinal ==
    [][\A i \in DOMAIN hedging_positions :
          hedging_positions[i].status = "closed"
             => hedging_positions'[i].status = "closed"]_vars

\* this step receives a POST /positions/:id/close for id
CloseArrives(id) ==
    /\ nreq' = nreq + 1
    /\ \/ res'.kind = "close" /\ res'.id = id
       \/ \E r \in Slots : /\ req[r].pc = "idle"
                           /\ req'[r].pc \in {"cmarket", "cupdate"}
                           /\ req'[r].id = id

\* C2: once a close of a position has been answered 200, every later close of
\* the same id is answered 404 and changes neither the position nor the audit
\* log nor the notifications.
C2_SecondCloseNotFound ==
    [][\A id \in closedOk :
          CloseArrives(id) => /\ res'.status = 404
                              /\ hedging_positions' = hedging_positions
                              /\ audit_log' = audit_log
                              /\ notifications' = notifications]_vars

\* C3: the profit_loss GET /positions reports for a closed position is the
\* value the row holds since its close, whatever the ticks stored since.
C3_ClosedPnLIsPersisted ==
    res.kind = "list" =>
       \A i \in DOMAIN res.out.positions :
          res.out.positions[i].status = "closed" =>
             res.out.positions[i].profit_loss
                = hedging_positions[res.out.positions[i].id].profit_loss

\* C4: no reachable state holds a closed position whose profit_loss no UPDATE
\* has written: the status and the realized P&L are set by the same UPDATE.
C4_ClosedHasPnL ==
    \A i \in DOMAIN hedging_positions :
       hedging_positions[i].status = "closed" => i \in plWritten

\* C5: a row changes only in a step of a request of its owner; GET /positions
\* returns only rows of the caller; PUT and close naming a row of another
\* user are answered 404 and leave the table as it was.
C5_OwnerOnly ==
    [][/\ \A i \in DOMAIN hedging_positions :
             hedging_positions'[i] # hedging_positions[i] =>
                \E r \in Slots : /\ req[r].pc \in {"pupdate", "cupdate"}
                                 /\ req'[r].pc # req[r].pc
                                 /\ req[r].id = i
                                 /\ req[r].user = hedging_positions[i].user_id
       /\ res'.kind = "list" =>
             \A i \in DOMAIN res'.out.positions :
                res'.out.positions[i].user_id = res'.user
       /\ ( /\ res'.kind \in {"put", "close"}
            /\ res'.id \in DOMAIN hedging_positions
            /\ hedging_positions[res'.id].user_id # res'.user )
          => res'.status = 404 /\ hedging_positions' = hedging_positions]_vars

\* C5 happens: a request naming another user's row was answered 404
C5_Witness ==
    /\ res.kind \in {"put", "close"}
    /\ res.status = 404
    /\ res.id \in DOMAIN hedging_positions
    /\ hedging_positions[res.id].user_id # res.user

\* C6: the number of a user's active positions never exceeds the ceiling of
\* the user's plan.
C6_CeilingRespected ==
    \A u \in Users : positionCount(u) <= limits[subscription_plan[u]]

\* the price of the newest tick of a metal: greatest timestamp, then greatest rowid
NewestTickPrice(metal) ==
    LET S == {i \in DOMAIN market_data : market_data[i].metal_type = metal}
        newest == {i \in S : \A j \in S :
                      market_data[j].timestamp <= market_data[i].timestamp}
    IN IF S = {} THEN Null ELSE <<market_data[Max(newest)].price>>

\* C7: when POST /positions reads the market and the metal has a tick, an entry
\* price more than 10% away from the newest tick's price is answered 400 with
\* no row stored, and an entry price within 10% goes on to the insertion.
C7_BandEnforced ==
    [][\A r \in Slots :
          (req[r].pc = "market" /\ req'[r].pc # "market") =>
             LET tick == NewestTickPrice(req[r].body.metalType)
                 entryPrice == req[r].body.entryPrice
             IN tick # Null =>
                   IF Abs(entryPrice - tick[1]) * 10 > tick[1]
                   THEN /\ res'.status = 400 /\ res'.error = "band"
                        /\ req'[r].pc = "idle"
                        /\ hedging_positions' = hedging_positions
                   ELSE req'[r].pc = "insert"]_vars

\* C7 happens: a creation was refused by the band check
C7_Witness == res.kind = "create" /\ res.status = 400 /\ res.error = "band"

\* a stored row is well formed
WellFormed(type, quantity, entryPrice, contractDate, expiryDate) ==
    /\ type \in {"long", "short"}
    /\ quantity > 0
    /\ entryPrice > 0
    /\ expiryDate >= contractDate

\* C8: every stored position, of either create operation, has a direction long
\* or short, quantity > 0, entry price > 0 and expiry >= contract date, and no
\* read computes a percentage over quantity x entryPrice = 0.
C8_StoredPositionsValid ==
    /\ \A i \in DOMAIN hedging_positions :
          WellFormed(hedging_positions[i].position_type, hedging_positions[i].quantity,
                     hedging_positions[i].entry_price, hedging_positions[i].contract_date,
                     hedging_positions[i].expiry_date)
    /\ \A i \in DOMAIN positions :
          WellFormed(positions[i].type, positions[i].quantity, positions[i].entryPrice,
                     positions[i].contractDate, positions[i].expiryDate)
    /\ legacy_res.kind = "list" =>
          \A i \in DOMAIN legacy_res.out :
             legacy_res.out[i].quantity * legacy_res.out[i].entryPrice # 0

\* quantity x currentPrice - quantity x entryPrice for long, the opposite
\* for short, in 1/QScale of a cent
ExactAmount(in) ==
    IF in.type = "long"
    THEN in.quantity * in.currentPrice - in.quantity * in.entryPrice
    ELSE in.quantity * in.entryPrice - in.quantity * in.currentPrice

\* C9 as stated: the amount returned is exactly quantity x currentPrice -
\* quantity x entryPrice (long) or the opposite (short).
C9_AmountExact ==
    (pnl_out # Null /\ pnl_in.type \in {"long", "short"}) =>
       pnl_out[1].amount * QScale = ExactAmount(pnl_in)

\* C9 as amended: the amount returned is that difference rounded to two
\* decimals (at most half a cent away from it); long (100, 10, 110) and short
\* (100, 10, 90) give amount 100 and percent 10.
C9_AmountRounded ==
    (pnl_out # Null /\ pnl_in.type \in {"long", "short"}) =>
       /\ 2 * Abs(pnl_out[1].amount * QScale - ExactAmount(pnl_in)) <= QScale
       /\ ( /\ pnl_in.quantity = 100 /\ pnl_in.entryPrice = 10000
            /\ pnl_in.currentPrice = IF pnl_in.type = "long" THEN 11000 ELSE 9000 )
          => pnl_out[1] = [amount |-> 10000, percentage |-> Num(1000)]

\* C9 happens: an amount was returned that the rounding changed
C9_Witness ==
    /\ pnl_out # Null
    /\ pnl_in.type \in {"long", "short"}
    /\ ExactAmount(pnl_in) % QScale # 0

\* C10 as stated: the percent returned equals the amount returned divided by
\* quantity x entryPrice, times 100, exactly.
C10_PercentExact ==
    (pnl_out # Null /\ pnl_in.quantity * pnl_in.entryPrice # 0) =>
       /\ pnl_out[1].percentage.kind = "num"
       /\ pnl_out[1].percentage.v * (pnl_in.quantity * pnl_in.entryPrice)
             = 10000 * pnl_out[1].amount * QScale

\* the unrounded amount of a computation, whatever the type
UnroundedAmount(in) == IF in.type \in {"long", "short"} THEN ExactAmount(in)
                       ELSE in.quantity * in.entryPrice - in.quantity * in.currentPrice

\* C10 as amended: the percent returned is the unrounded amount divided by
\* quantity x entryPrice, times 100, rounded to two decimals (at most 0.005
\* away from it); over quantity x entryPrice = 0 it is NaN or an infinity.
C10_PercentRounded ==
    pnl_out # Null =>
       LET entryValue == pnl_in.quantity * pnl_in.entryPrice
       IN IF entryValue = 0
          THEN pnl_out[1].percentage.kind \in {"NaN", "Infinity"}
          ELSE /\ pnl_out[1].percentage.kind = "num"
               /\ 2 * Abs(pnl_out[1].percentage.v * entryValue
                          - 10000 * UnroundedAmount(pnl_in)) <= Abs(entryValue)

\* C10 happens: a percent was returned that is not the exact quotient
C10_Witness ==
    /\ pnl_out # Null
    /\ pnl_in.quantity * pnl_in.entryPrice # 0
    /\ pnl_out[1].percentage.v * (pnl_in.quantity * pnl_in.entryPrice)
          # 10000 * UnroundedAmount(pnl_in)

\* C11: two reads of the positions of a user, with no row changed, no tick
\* stored and no time passed between them, return the same current price, P&L
\* amount and P&L percent; this for getUserPositions and for GET /positions.
C11_RereadIdentical ==
    [][/\ ( /\ legacy_res.kind = "list" /\ legacy_res'.kind = "list"
            /\ legacy_res'.user = legacy_res.user
            /\ positions' = positions )
          => legacy_res'.out = legacy_res.out
       /\ ( /\ res.kind = "list" /\ res'.kind = "list"
            /\ res'.user = res.user
            /\ hedging_positions' = hedging_positions
            /\ market_data' = market_data
            /\ now' = now )
          => res'.out = res.out]_vars

\* C12: an active position's stored profit_loss and current_price are the
\* values of its creation (0 and NULL), and a read of the positions changes no
\* row of hedging_positions.
C12_NothingCachedOnRow ==
    [][/\ \A i \in DOMAIN hedging_positions' :
             hedging_positions'[i].status = "active" =>
                /\ hedging_positions'[i].profit_loss = 0
                /\ hedging_positions'[i].current_price = Null
       /\ res'.kind = "list" => hedging_positions' = hedging_positions]_vars

\* this step answers a GET /market/data from the cache
CacheHitServed == res'.kind = "market" /\ res'.out.cached

\* C13: a GET /market/data served from the cache stores no tick, leaves the
\* cache as it is, starts no refresh, and returns the values of the previous
\* cache hit when that one was served inside the same window (at or after the
\* refresh time the cache now carries).
C13_CacheHitSameValues ==
    [][CacheHitServed =>
          /\ market_data' = market_data
          /\ marketDataCache' = marketDataCache
          /\ lastCacheUpdate' = lastCacheUpdate
          /\ req' = req
          /\ (lastHit # Null /\ lastHit[1].at >= lastCacheUpdate)
                => res'.out.data = lastHit[1].data]_vars

\* the requests that are generating ticks
Refreshing == {r \in Slots : req[r].pc = "minsert"}

\* C14: at most one GET /market/data at a time generates and stores ticks.
C14_SingleWriter == Cardinality(Refreshing) <= 1

\* C15: every answer of GET /market/data has an entry for each metal that has
\* a tick in the store, fresh or not.
C15_LastKnownPrice ==
    res.kind = "market" => \A m \in StoredMetals : m \in DOMAIN res.out.data

ExposureIn(ps, m) ==
    SumSeq([i \in DOMAIN ps |->
              IF ps[i].metal_type = m THEN ps[i].quantity * ps[i].entry_price ELSE 0])

\* the largest per-metal exposure of the portfolio, 0 for the empty portfolio
LargestExposure(ps) ==
    Max({ExposureIn(ps, ps[i].metal_type) : i \in DOMAIN ps} \cup {0})

\* the total exposure of the portfolio
TotalExposure(ps) == SumSeq([i \in DOMAIN ps |-> ps[i].quantity * ps[i].entry_price])

C20_LevelFollowsReported ==
    risk_out # Null =>
       LET c == risk_out[1].concentrationRisk.v
       IN risk_out[1].riskLevel =
             IF c > 5000 THEN "high" ELSE IF c > 3000 THEN "medium" ELSE "low"

\* C20: riskLevel follows from the concentration before it is rounded to the
\* two decimals of the response: high above 50, medium above 30 and not above
\* 50, low otherwise; a reported concentrationRisk above 50 has the level high,
\* one below 50 has not, one of 30 or less has not the level high.
C20_LevelFollowsUnrounded ==
    risk_out # Null =>
       LET ps == risk_in[1]
           c == risk_out[1].concentrationRisk.v
           level == risk_out[1].riskLevel
           total == TotalExposure(ps)
           largest == LargestExposure(ps)
       IN /\ level = IF total > 0 /\ 100 * largest > 50 * total THEN "high"
                     ELSE IF total > 0 /\ 100 * largest > 30 * total THEN "medium"
                     ELSE "low"
          /\ c > 5000 => level = "high"
          /\ c < 5000 => level # "high"
          /\ c > 3000 => level # "low"
          /\ c < 3000 => level = "low"

\* a portfolio whose largest share is 50.004 percent was measured: the response
\* reports 50.00 and the level high
C20_Witness ==
    /\ risk_out # Null
    /\ risk_out[1].concentrationRisk = Num(5000)
    /\ risk_out[1].riskLevel = "high"


\* what an active row adds to the unrealized P&L of its user, in 1/QScale of a
\* cent: nothing when no tick of its metal lies inside the window, else its
\* P&L at the price of the newest tick inside the window
WindowPnL(row) ==
    LET S == {i \in DOMAIN market_data : /\ market_data[i].metal_type = row.metal_type
                                         /\ market_data[i].timestamp > now - Hour}
        price == market_data[Max(S)].price
    IN IF S = {} \/ price = 0 THEN 0
       ELSE IF row.position_type = "long"
            THEN (price - row.entry_price) * row.quantity
            ELSE (row.entry_price - price) * row.quantity

\* the unrealized P&L of the active rows of a user, read now
WindowPnLOf(userId) ==
    SumSeq([i \in DOMAIN hedging_positions |->
              IF /\ hedging_positions[i].user_id = userId
                 /\ hedging_positions[i].status = "active"
              THEN WindowPnL(hedging_positions[i]) ELSE 0])

\* no tick of the metal lies inside the freshness window
NoFreshTick(metal) ==
    \A i \in DOMAIN market_data :
       market_data[i].metal_type = metal => market_data[i].timestamp <= now - Hour

\* C16: an active position with no tick of its metal inside the freshness
\* window is read at its own entry price: the list reports entry price, P&L 0
\* and 0 percent for it, the overview and the risk metrics count 0 for it in
\* the total they read and report, and all three answer 200.
C16_StaleReadsAtEntryPrice ==
    [][/\ res'.kind = "list" =>
             /\ res'.status = 200
             /\ \A i \in DOMAIN res'.out.positions :
                   LET p == res'.out.positions[i]
                       row == hedging_positions[p.id]
                   IN (p.status = "active" /\ NoFreshTick(row.metal_type)) =>
                         /\ p.current_market_price = row.entry_price
                         /\ p.profit_loss = 0
                         /\ p.profit_loss_percent = Num(0)
       /\ \A r \in Slots :
             /\ (req[r].pc = "oactive" /\ req'[r].pc = "orealized") =>
                   req'[r].totalUnrealizedPnL = WindowPnLOf(req[r].user)
             /\ (req[r].pc = "ofinish" /\ req'[r].pc = "idle") =>
                   /\ res'.kind = "overview" /\ res'.status = 200
                   /\ res'.out.totalUnrealizedPnL = toFixed2(req[r].totalUnrealizedPnL)
             /\ (req[r].pc = "idle" /\ req'[r].pc = "rvolatility") =>
                   req'[r].metrics.totalUnrealizedPnL
                      = toFixed2(WindowPnLOf(req'[r].user))
             /\ (req[r].pc = "rvolatility" /\ req'[r].pc = "idle") =>
                   /\ res'.kind = "risk" /\ res'.status = 200
                   /\ res'.out = req[r].metrics]_vars

\* the risk metrics answer with a total of 0 for a user whose active position
\* was entered away from the last tick of its metal, now out of the window
C16_Witness ==
    /\ res.kind = "risk" /\ res.status = 200
    /\ res.out.totalUnrealizedPnL = 0
    /\ \E i \in DOMAIN hedging_positions :
          /\ hedging_positions[i].user_id = res.user
          /\ hedging_positions[i].status = "active"
          /\ NoFreshTick(hedging_positions[i].metal_type)
          /\ latestPrice(hedging_positions[i].metal_type) # Null
          /\ latestPrice(hedging_positions[i].metal_type)
                # <<hedging_positions[i].entry_price>>


\* the active rows of a user, as stored
OwnActive(userId) ==
    LET Own(row) == row.user_id = userId /\ row.status = "active"
    IN SelectSeq(hedging_positions, Own)

\* the exposure of the rows in one direction, in 1/QScale of a cent
ExposureOfType(ps, type) ==
    SumSeq([i \in DOMAIN ps |->
              IF ps[i].position_type = type THEN ps[i].quantity * ps[i].entry_price ELSE 0])

RECURSIVE SumFn(_)
\* the sum of the values of a function over its domain
SumFn(f) ==
    IF DOMAIN f = {} THEN 0
    ELSE LET x == CHOOSE y \in DOMAIN f : TRUE
         IN f[x] + SumFn([y \in DOMAIN f \ {x} |-> f[y]])

\* this step is the risk metrics reading the positions in slot r
RiskReads(r) == req[r].pc = "idle" /\ req'[r].pc = "rvolatility"

\* C21 as stated: the totalExposure of a risk snapshot is the sum of quantity
\* x entryPrice over the caller's active positions, and equals the sum of the
\* per-metal exposures and the sum of the long and short exposures it reports.
C21_ExposuresAddUp ==
    [][\A r \in Slots : RiskReads(r) =>
          LET m == req'[r].metrics
              ps == OwnActive(req'[r].user)
          IN /\ m.totalExposure = toFixed2(TotalExposure(ps))
             /\ m.totalExposure = SumFn(m.metalExposure)
             /\ m.totalExposure = m.positionTypeBalance.long
                                     + m.positionTypeBalance.short]_vars

\* C21: before rounding, the total exposure of a risk snapshot is the sum of
\* quantity x entryPrice over the caller's active positions and nothing else,
\* and is the sum of the per-metal exposures and of the long and short
\* exposures; the response rounds each of these amounts to two decimals on its
\* own, so the reported parts add up to the reported total to within half a
\* cent for each amount rounded.
C21_ExposuresAddUpBeforeRounding ==
    [][\A r \in Slots : RiskReads(r) =>
          LET m == req'[r].metrics
              ps == OwnActive(req'[r].user)
              metals == {ps[i].metal_type : i \in DOMAIN ps}
          IN /\ m.totalExposure = toFixed2(TotalExposure(ps))
             /\ DOMAIN m.metalExposure = metals
             /\ \A k \in metals : m.metalExposure[k] = toFixed2(ExposureIn(ps, k))
             /\ m.positionTypeBalance.long = toFixed2(ExposureOfType(ps, "long"))
             /\ m.positionTypeBalance.short = toFixed2(ExposureOfType(ps, "short"))
             /\ TotalExposure(ps) = SumFn([k \in metals |-> ExposureIn(ps, k)])
             /\ TotalExposure(ps) = ExposureOfType(ps, "long")
                                      + ExposureOfType(ps, "short")
             /\ 2 * Abs(SumFn(m.metalExposure) - m.totalExposure)
                   <= Cardinality(metals) + 1
             /\ 2 * Abs(m.positionTypeBalance.long + m.positionTypeBalance.short
                         - m.totalExposure) <= 3]_vars

\* a risk snapshot of a user with a long and a short position, both worth a
\* half cent more than a whole number of cents: the reported long and short
\* exposures add up to a cent more than the reported total
C21_Witness ==
    /\ res.kind = "risk" /\ res.status = 200
    /\ res.out.positionTypeBalance.long > 0 /\ res.out.positionTypeBalance.short > 0
    /\ res.out.positionTypeBalance.long + res.out.positionTypeBalance.short
          = res.out.totalExposure + 1


\* the price a risk snapshot uses for a row: the fresh price, else the entry price
SnapshotPrice(position) ==
    IF position.current_market_price # <<>> /\ position.current_market_price[1] # 0
    THEN position.current_market_price[1]
    ELSE position.entry_price

\* C22: positionsAtRisk is the number of active positions with a stop loss
\* that are long with the snapshot's current price at or below the stop loss,
\* or short with it at or above, the current price being the fresh price of
\* the metal and else the entry price.
C22_AtRiskByCurrentPrice ==
    risk_out # Null =>
       LET ps == risk_in[1]
       IN risk_out[1].positionsAtRisk =
             Cardinality({i \in DOMAIN ps :
                /\ ps[i].stop_loss # <<>>
                /\ \/ /\ ps[i].position_type = "long"
                      /\ SnapshotPrice(ps[i]) <= ps[i].stop_loss[1]
                   \/ /\ ps[i].position_type = "short"
                      /\ SnapshotPrice(ps[i]) >= ps[i].stop_loss[1]})


\* the closed rows among the rows, and those closed with a gain
ClosedOf(rows) == {i \in DOMAIN rows : rows[i].status = "closed"}
WonOf(rows) == {i \in ClosedOf(rows) : rows[i].profit_loss > 0}

\* v, in hundredths of a percent, is exactly won / closed x 100, 0 for none closed
ExactRate(v, won, closed) ==
    /\ v.kind = "num"
    /\ IF closed = 0 THEN v.v = 0 ELSE v.v * closed = 10000 * won
    /\ v.v >= 0 /\ v.v <= 10000

\* v is won / closed x 100 rounded to two decimals, 0 for none closed
RoundedRate(v, won, closed) ==
    /\ v.kind = "num"
    /\ IF closed = 0 THEN v.v = 0 ELSE 2 * Abs(v.v * closed - 10000 * won) <= closed
    /\ v.v >= 0 /\ v.v <= 10000

\* C23 as stated: every win rate reported is the number of the user's closed
\* positions with a realized P&L above 0 over the number of the user's closed
\* positions, times 100; 0 without a closed position; in [0, 100].
C23_WinRateOfClosed ==
    stat_out # Null =>
       LET won == Cardinality(WonOf(stat_in.rows))
           closed == Cardinality(ClosedOf(stat_in.rows))
       IN /\ ExactRate(stat_out[1].overview, won, closed)
          /\ ExactRate(stat_out[1].analytics, won, closed)
          /\ ExactRate(stat_out[1].legacy, 0, 0)

\* C23: the win rate of the overview is that quotient rounded to two decimals;
\* the win rate of the analytics is the same quotient over the positions
\* created inside the period asked for only; the win rate of the legacy
\* summary, whose positions are never closed, is 0; each is 0 without a closed
\* position counted and lies in [0, 100].
C23_WinRateRoundedInPeriod ==
    stat_out # Null =>
       LET rows == stat_in.rows
           inPeriod == {i \in DOMAIN rows : rows[i].age < stat_in.period}
       IN /\ RoundedRate(stat_out[1].overview,
                         Cardinality(WonOf(rows)), Cardinality(ClosedOf(rows)))
          /\ RoundedRate(stat_out[1].analytics,
                         Cardinality(WonOf(rows) \cap inPeriod),
                         Cardinality(ClosedOf(rows) \cap inPeriod))
          /\ stat_out[1].legacy = Num(0)

\* one closed position of three was won, and it is older than the period: the
\* overview reports 33.33, the analytics 0
C23_Witness ==
    /\ stat_out # Null
    /\ stat_in.period = 30
    /\ stat_out[1].overview = Num(3333)
    /\ stat_out[1].analytics = Num(0)
    /\ Cardinality(ClosedOf(stat_in.rows)) = 3


\* the notifications created for an alert
FiredFor(ns, id) ==
    {k \in DOMAIN ns : ns[k].title = "Price Alert Triggered" /\ ns[k].alert = id}

\* C24: an alert fires at most once: under every interleaving of the requests
\* and the ticks, at most one "Price Alert Triggered" notification exists for
\* it, and no step sets the triggered_at of an alert that carries one.
C24_AlertFiresOnce ==
    [][/\ \A i \in DOMAIN trading_alerts' : Cardinality(FiredFor(notifications', i)) <= 1
       /\ \A r \in Slots :
             (req[r].pc = "amark" /\ req'[r].pc = "anotify") =>
                trading_alerts[Head(req[r].toFire).id].triggered_at = Null]_vars


\* the error is a plain failure: no validation, no token error, no constraint
PlainFailure(err) == err.name = "Error" /\ err.code # "SQLITE_CONSTRAINT_UNIQUE"

\* C25: a failure that is no validation, not-found or auth error is answered
\* 500 with a fixed message, by the catch block of a route and by the
\* errorHandler alike; the message of the error raised is not in the response.
C25_GenericFailure ==
    (err_out # Null /\ PlainFailure(err_in.err)) =>
       /\ err_out[1].status = 500
       /\ err_out[1].error \in {routeMessages.market, routeMessages.create,
                                 "Internal Server Error"}
       /\ err_in.err.message # "" => err_out[1].error # err_in.err.message
       /\ ~err_out[1].stack


\* C26: a POST /positions answered 400, 403 or 500 has stored no position row
\* (the id of the row the request inserted is 0, none), hence no audit row and
\* no notification, and the step that answers writes to none of the three tables.
C26_ErrorWritesNothing ==
    [][(res'.kind = "create" /\ res'.status \in {400, 403, 500}) =>
          /\ res'.id = 0
          /\ hedging_positions' = hedging_positions
          /\ audit_log' = audit_log
          /\ notifications' = notifications]_vars


\* C27: when a close without a close price reads the market, the final P&L it
\* goes on to persist is the unrealized P&L that GET /positions reports for
\* the position in that state of the store.
C27_CloseMatchesList ==
    [][\A r \in Slots :
          (req[r].pc = "cmarket" /\ req'[r].pc = "cupdate") =>
             toFixed2(finalPnL(req[r].position, req'[r].finalClosePrice))
                = toFixed2(WindowPnL(hedging_positions[req[r].id]))]_vars


\* C28: a GET /market/data answered from the cache returns, for each metal,
\* the price of the newest tick stored for that metal, also after refreshes by
\* requests that overlapped.
C28_CacheIsNewestTick ==
    [][CacheHitServed =>
          \A m \in DOMAIN res'.out.data :
             <<res'.out.data[m].price>> = NewestTickPrice(m)]_vars


\* the metals of a portfolio
MetalsOf(ps) == {ps[i].metal_type : i \in DOMAIN ps}

\* C29: the risk level low is reported only for a portfolio that is empty or
\* spread over at least 4 metals; a portfolio in one metal is reported high;
\* a portfolio over 2 or 3 metals is not reported low.
C29_LowNeedsFourMetals ==
    risk_out # Null =>
       LET n == Cardinality(MetalsOf(risk_in[1]))
           level == risk_out[1].riskLevel
       IN /\ level = "low" => (risk_in[1] = <<>> \/ n >= 4)
          /\ n = 1 => level = "high"
          /\ n \in {2, 3} => level # "low"

\* a portfolio spread over four metals, none above 30 percent, was measured low
C29_Witness ==
    /\ risk_out # Null
    /\ Cardinality(MetalsOf(risk_in[1])) = 4
    /\ risk_out[1].concentrationRisk = Num(3000)
    /\ risk_out[1].riskLevel = "low"


\* the day of the instant, the dates of the bodies counting the hours from the
\* start of the run: day 1 at the start, day 2 an hour later
Today == 1 + now \div Hour

\* C30: every position's status is active or closed; a status changes only in
\* the UPDATE of a PUT or of a close naming the row, so the passing of time
\* changes no row and a position past its expiry date stays active.
C30_NeverExpired ==
    [][/\ \A i \in DOMAIN hedging_positions' :
             hedging_positions'[i].status \in {"active", "closed"}
       /\ \A i \in DOMAIN hedging_positions :
             hedging_positions'[i].status # hedging_positions[i].status =>
                \E r \in Slots : req[r].pc \in {"pupdate", "cupdate"} /\ req[r].id = i
       /\ now' # now => hedging_positions' = hedging_positions]_vars

\* a position past its expiry date is active and counted toward the ceiling of
\* its user, after a PUT that named the status expired was answered 200
C30_Witness ==
    /\ res.kind = "put" /\ res.status = 200
    /\ \E i \in DOMAIN hedging_positions :
          /\ hedging_positions[i].expiry_date < Today
          /\ hedging_positions[i].status = "active"
          /\ hedging_positions[i].target_price = <<225000>>
          /\ positionCount(hedging_positions[i].user_id) >= 1

=============================================================================
